---- MODULE Spec2Model ----
\* A model of the synchronisation orchestration engine of email_sync:
\*   oauth.py          OAuth2Manager (token lifecycle)
\*   sync_improved.py  ImprovedSyncManager (folder batches, checkpoint, accounts in parallel)
\*   sync.py           SyncManager (accounts one after the other, each through the
\*                     retry loop around one whole-account transfer)
\* Times are in seconds.  Absent dictionary entries and None are written 0.
EXTENDS Integers, Sequences, FiniteSets, TLC

\* ---------------------------------------------------------------- bounds
\* The clock of the token model runs from 0 to MaxTime in steps of TickStep.
MaxTime == 1200
TickStep == 300
\* The token endpoint answers at most MaxIssued requests with a new token.
MaxIssued == 3

\* A child reports at most MaxMessages processed messages.
MaxMessages == 1

\* Folder discovery finds MaxFolders folders in account a1 and SmallFolders in
\* account a2 (or nothing at all).
MaxFolders == 6
SmallFolders == 2
\* run_imapsync_with_retry is called with max_retries from 0 to MaxRetries.
MaxRetries == 4

\* ------------------------------------------------------- program constants
\* batch_folders(folders_to_sync, batch_size=5)
BatchSize == 5
\* sync_account_parallel(..., max_workers=2) as called by sync_accounts_parallel
MaxWorkers == 2
\* timedelta(minutes=10) in get_valid_token
Margin == 600
\* the 300 s taken off expires_in when the expiry is recorded
Skew == 300
\* token_data.get('expires_in', 3600)
DefaultExpiresIn == 3600

\* Threads that call get_valid_token (folder-batch workers of one identity).
Threads == {"t1", "t2"}
\* expires_in values the endpoint may grant; 0 stands for a response without the field.
ExpiresInValues == {0, 600, 1200}

\* The configured accounts: a1 is an Office 365 (OAuth) account, a2 a password account.
Accounts == {"a1", "a2"}
IsOffice365(a) == a = "a1"
\* What one line of the transfer tool's output can be to the supervisor: nothing it
\* acts on, a token-expiration marker ("AccessTokenExpired"), or an "error"/"failed"
\* line while a folder is current.
LineKinds == {"plain", "marker", "error"}

\* self.config_manager.accounts, in order.
AccountOrder == <<"a1", "a2">>

\* How the orchestrator is called: sync_accounts_parallel passes max_workers=2
\* and takes max_parallel and dry_run from its caller; a call with one worker
\* in each pool makes both pools smaller than the work submitted to them.
CallParameters ==
  { [max_parallel |-> 2, max_workers |-> MaxWorkers, dry_run |-> FALSE],
    [max_parallel |-> 1, max_workers |-> 1, dry_run |-> TRUE] }

\* How a call of get_account_folders ends: an Office 365 account and no OAuth
\* manager ("nomanager"), an exception before the child runs ("error"),
\* subprocess.run raises TimeoutExpired ("timeout"), the child's output has no
\* folder line ("nothing"), or it lists the folders ("listed").
DiscoveryEnds == {"nomanager", "error", "timeout", "nothing", "listed"}

NoDiscovery == [end |-> "none", child |-> "none"]

VARIABLES
  \* ---- OAuth2Manager
  now,        \* datetime.now()
  tokens,     \* self.tokens
  tokfile,    \* the content of oauth_tokens.json
  issued,     \* number of tokens the endpoint has issued (the newest token's id)
  tpc,        \* where each thread is inside get_valid_token
  tcached,    \* the access token the thread found cached when it entered
  trefreshed, \* the thread's own refresh or re-acquisition succeeded in this call
  tret,       \* what get_valid_token returned to the thread (0 is None)
  tslack,     \* recorded expiry minus now, at the moment of the return
  \* ---- ImprovedSyncManager
  oauth,          \* self.oauth_manager is not None
  max_parallel,   \* the parameter max_parallel of sync_accounts_parallel
  max_workers,    \* the parameter max_workers of sync_account_parallel
  dry_run,        \* the parameter dry_run
  shutdown,       \* self.shutdown_event.is_set()
  ckpt,           \* sync_state.json: account -> set of synced folders
  opc,            \* sync_accounts_parallel: "idle", "running", "done"
  apc,            \* sync_account_parallel of each account: where its thread is
  discovered,     \* folders = self.get_account_folders(account)
  discovery,      \* how get_account_folders ended, and the credential its child was given
  local,          \* sync_state of each account thread (account_state is local[a][a])
  batches,        \* folder_batches
  bst,            \* one record per submitted batch: its future and its child process
  failed_batches, \* failed_batches: <<batch_idx, message>>
  rpos,           \* position of the retry loop in failed_batches
  rinv,           \* the invocation the retry loop is waiting for
  progFailed,     \* account_progress[email]['failed_folders'] is not empty
  result,         \* results[account.email]: "none", "ok", "fail", "raised"
  \* ---- history
  okFolders,      \* folders of invocations that exited and were classified success
  tripOk,         \* okFolders at the moment the shutdown flag was set
  writes,         \* checkpoint writes made for each batch in this run
  rruns,          \* transfer processes started for each batch by the retry loop
  allruns,        \* whole-account transfer processes run_imapsync_all_folders started
  \* ---- both orchestrators
  destpw,         \* the accounts whose dest_email has an entry in dest_config['passwords']
  probes,         \* connections made to the destination server to test it
  probeFailed,    \* the test of the destination server failed
  saves,          \* the calls of config_manager.save_configuration by the orchestrator
  \* ---- SyncManager.sync_accounts
  qpc,            \* "idle", "loop" (at the head of the loop), "call", "end", "done"
  qi,             \* the position of the loop in the account list
  qout,           \* what was printed for each account: "none", "skipped", "ok", "fail"
  announced,      \* "All N accounts synchronized!" was printed
  \* ---- SyncManager.run_imapsync_with_retry
  acct,        \* the account: is_office365, has a password; and self.oauth_manager exists
  sync_stats,     \* account.sync_stats of every account
  ended,          \* how the last call of _run_imapsync ended
  max_retries, \* the parameter max_retries
  rpc,         \* "entry", "loop" (about to make an attempt), "sleep", "done"
  attempt,     \* the loop variable
  attempts,    \* calls of _run_imapsync made
  raisedAll,   \* every call of _run_imapsync so far raised
  delays,      \* the arguments of time.sleep, in order
  toolMissing, \* some call of _run_imapsync raised because imapsync was not found
  conn,        \* the call of test_connection: made, get_valid_token gave a token, result
  outcome,     \* what was returned: ok, and the message
  \* ---- the supervisor of one child process
  active_processes, \* self.active_processes
  wpc,              \* where each call is: "idle", "read", "wait", "run", "returned"
  wkind,            \* the method that was called
  child,            \* its child process
  token_expired,    \* token_expired of run_imapsync_for_folders
  sawMarker,        \* a token-expiration marker was in the child's output
  wres,             \* what the call reported: "ok", "expired", "fail"
  \* ---- ConfigManager
  accounts,        \* self.accounts
  dest_config,     \* self.dest_config: settings, 'passwords' in it, the passwords
  oauth_config,    \* self.oauth_config is not empty
  accounts_config, \* the content of accounts.json
  lock,            \* self._lock: "free" or the thread that holds it
  cpc,             \* where each thread is: "idle", "lock", "body", "save", "write", "done"
  call,            \* the operation the thread called, with its arguments
  cres,            \* what the call returned, or the error it raised
  csnap,           \* the dictionary save_configuration built, and from what
  \* ---- history
  setup,           \* accounts.json existed before the first call
  saved,           \* what was in memory when the content of accounts.json was built
  loaded           \* accounts and dest_config of a new ConfigManager that loaded this file

tokvars == <<now, tokens, tokfile, issued, tpc, tcached, trefreshed, tret, tslack>>
schedvars == <<oauth, discovery, max_parallel, max_workers, dry_run, shutdown, ckpt, opc, apc, discovered, local, batches, bst,
               failed_batches, rpos, rinv, progFailed, result,
               okFolders, tripOk, writes, rruns, allruns>>
runvars == <<destpw, probes, probeFailed, saves>>
seqvars == <<qpc, qi, qout, announced>>
retryvars == <<acct, sync_stats, ended, max_retries, rpc, attempt, attempts, raisedAll, delays, toolMissing, conn,
               outcome>>
cfgvars == <<accounts, dest_config, oauth_config, accounts_config, lock, cpc, call, cres,
             csnap, setup, saved, loaded>>
supvars == <<active_processes, wpc, wkind, child, token_expired, sawMarker, wres>>
vars == <<tokvars, schedvars, retryvars, runvars, seqvars, cfgvars, supvars>>

\* (every account is taken to have a destination password)
HasDestPasswordAlways(a) == TRUE

\* dest_passwords.get(account.dest_email)
HasDestPassword(a) == a \in destpw

\* ------------------------------------------------------------ OAuth2Manager
EmptyTokens ==
  [access_token |-> 0, refresh_token |-> 0, expires_at |-> 0, grant_type |-> "none"]

\* No margin at all: the token counts as valid until its recorded expiry.
NearExpiryNoMargin(t, expires_at) == t >= expires_at

\* (a margin twice as wide)
NearExpiryDoubleMargin(t, expires_at) == t >= expires_at - 2 * Margin

\* datetime.now() >= expires_at - timedelta(minutes=10)
NearExpiry(t, expires_at) == t >= expires_at - Margin

\* token_data.get('expires_in', 3600)
ExpiresIn(field) == IF field = 0 THEN DefaultExpiresIn ELSE field

\* (datetime.now() + timedelta(seconds=expires_in - 300)).isoformat()
RecordedExpiry(t, field) == t + ExpiresIn(field) - Skew

\* The token records load_tokens can find on disk when the manager is constructed.
InitialTokens ==
  {EmptyTokens}
  \cup { [access_token |-> 1, refresh_token |-> r, expires_at |-> e, grant_type |-> "none"] :
           r \in {0, 1}, e \in {300, 1500} }
  \cup { [access_token |-> 1, refresh_token |-> 0, expires_at |-> e,
          grant_type |-> "client_credentials"] : e \in {300, 1500} }

InitToken ==
  /\ now = 0
  /\ tokens \in InitialTokens
  /\ tokfile = tokens
  /\ issued = 1
  /\ tpc = [t \in Threads |-> "idle"]
  /\ tcached = [t \in Threads |-> 0]
  /\ trefreshed = [t \in Threads |-> FALSE]
  /\ tret = [t \in Threads |-> 0]
  /\ tslack = [t \in Threads |-> 0]

\* get_valid_token returns `value` to thread t.
TokReturn(t, value) ==
  /\ tpc' = [tpc EXCEPT ![t] = "done"]
  /\ tret' = [tret EXCEPT ![t] = value]
  /\ tslack' = [tslack EXCEPT ![t] = IF value = 0 THEN 0 ELSE tokens.expires_at - now]

\* (every record is refreshed with its refresh token)
RefreshGrantStandard(record) ==
  IF record.refresh_token = 0 THEN "none" ELSE "post_refresh"

\* The request get_valid_token makes for a record that needs a refresh:
\* refresh_client_credentials_token (acquire_token) for a client-credentials
\* record, else refresh_token, which returns False before any request when no
\* refresh token is stored.
RefreshGrant(record) ==
  IF record.grant_type = "client_credentials" THEN "post_acquire"
  ELSE IF record.refresh_token = 0 THEN "none" ELSE "post_refresh"

\* get_valid_token up to the point where it returns or posts to the token endpoint.
GetValidToken(t) ==
  /\ tpc[t] = "idle"
  /\ tcached' = [tcached EXCEPT ![t] = tokens.access_token]
  /\ UNCHANGED <<cfgvars, supvars, schedvars, retryvars, runvars, seqvars, now, tokens, tokfile, issued, trefreshed>>
  /\ IF tokens.access_token = 0 \/ tokens.expires_at = 0
       THEN TokReturn(t, 0)
       ELSE IF NearExpiry(now, tokens.expires_at)
         THEN IF RefreshGrant(tokens) = "none"
                THEN TokReturn(t, 0)
                ELSE /\ tpc' = [tpc EXCEPT ![t] = RefreshGrant(tokens)]
                     /\ UNCHANGED <<tret, tslack>>
         ELSE TokReturn(t, tokens.access_token)

\* refresh_token from the answer of requests.post up to the call of save_tokens: the
\* new record is in self.tokens.
RefreshTokenOk(t) ==
  /\ tpc[t] = "post_refresh"
  /\ issued < MaxIssued
  /\ \E field \in ExpiresInValues, rotate \in BOOLEAN :
       tokens' = [tokens EXCEPT !.access_token = issued + 1,
                                !.refresh_token = IF rotate THEN issued + 1 ELSE @,
                                !.expires_at = RecordedExpiry(now, field)]
  /\ issued' = issued + 1
  /\ trefreshed' = [trefreshed EXCEPT ![t] = TRUE]
  /\ tpc' = [tpc EXCEPT ![t] = "save"]
  /\ UNCHANGED <<cfgvars, supvars, schedvars, retryvars, runvars, seqvars, now, tokfile, tcached, tret, tslack>>

\* acquire_token (through refresh_client_credentials_token) from the answer up to the
\* call of save_tokens.
AcquireTokenOk(t) ==
  /\ tpc[t] = "post_acquire"
  /\ issued < MaxIssued
  /\ \E field \in ExpiresInValues :
       tokens' = [access_token |-> issued + 1, refresh_token |-> 0,
                  expires_at |-> RecordedExpiry(now, field),
                  grant_type |-> "client_credentials"]
  /\ issued' = issued + 1
  /\ trefreshed' = [trefreshed EXCEPT ![t] = TRUE]
  /\ tpc' = [tpc EXCEPT ![t] = "save"]
  /\ UNCHANGED <<cfgvars, supvars, schedvars, retryvars, runvars, seqvars, now, tokfile, tcached, tret, tslack>>

\* What oauth_tokens.json can hold after save_tokens: the record (written), what it
\* held before (open failed) or nothing readable (the write broke off); save_tokens
\* logs the exception and returns normally.
SavedFiles(record, before) == {record, before, EmptyTokens}

\* save_tokens as called by refresh_token and acquire_token, which then return True.
SaveTokens(t) ==
  /\ tpc[t] = "save"
  /\ tokfile' \in SavedFiles(tokens, tokfile)
  /\ tpc' = [tpc EXCEPT ![t] = "ret"]
  /\ UNCHANGED <<cfgvars, supvars, schedvars, retryvars, runvars, seqvars, now, tokens, issued, tcached, trefreshed,
                 tret, tslack>>

\* (the token cached at entry is handed out when the request fails)
FailureValueStale(cached) == cached

\* if not self.refresh_token(): ... return None
FailureValue(cached) == 0

\* requests.exceptions.RequestException: refresh_token / acquire_token return False
\* and get_valid_token returns None.
TokenRequestFails(t) ==
  /\ tpc[t] \in {"post_refresh", "post_acquire"}
  /\ TokReturn(t, FailureValue(tcached[t]))
  /\ UNCHANGED <<cfgvars, supvars, schedvars, retryvars, runvars, seqvars, now, tokens, tokfile, issued, tcached, trefreshed>>

\* return self.tokens['access_token'] after a successful refresh.
GetValidTokenReturn(t) ==
  /\ tpc[t] = "ret"
  /\ TokReturn(t, tokens.access_token)
  /\ UNCHANGED <<cfgvars, supvars, schedvars, retryvars, runvars, seqvars, now, tokens, tokfile, issued, tcached, trefreshed>>

\* The caller goes on with the token; the thread may call again later.
TokenCallerContinues(t) ==
  /\ tpc[t] = "done"
  /\ tpc' = [tpc EXCEPT ![t] = "idle"]
  /\ tcached' = [tcached EXCEPT ![t] = 0]
  /\ trefreshed' = [trefreshed EXCEPT ![t] = FALSE]
  /\ tret' = [tret EXCEPT ![t] = 0]
  /\ tslack' = [tslack EXCEPT ![t] = 0]
  /\ UNCHANGED <<cfgvars, supvars, schedvars, retryvars, runvars, seqvars, now, tokens, tokfile, issued>>

\* Time passes.
Tick ==
  /\ now < MaxTime
  /\ now' = now + TickStep
  /\ UNCHANGED <<cfgvars, supvars, schedvars, retryvars, runvars, seqvars, tokens, tokfile, issued, tpc, tcached, trefreshed, tret, tslack>>

NextToken ==
  \/ \E t \in Threads : GetValidToken(t)
  \/ \E t \in Threads : RefreshTokenOk(t)
  \/ \E t \in Threads : AcquireTokenOk(t)
  \/ \E t \in Threads : SaveTokens(t)
  \/ \E t \in Threads : TokenRequestFails(t)
  \/ \E t \in Threads : GetValidTokenReturn(t)
  \/ \E t \in Threads : TokenCallerContinues(t)
  \/ Tick

\* ------------------------------------------------------ ImprovedSyncManager
Min(x, y) == IF x < y THEN x ELSE y

\* What get_account_folders parses from the folder listing of account a.
FolderList(a) == [k \in 1..(IF a = "a1" THEN MaxFolders ELSE SmallFolders) |-> k]

SeqToSet(q) == {q[k] : k \in 1..Len(q)}

\* batch_folders: [folders[i:i + batch_size] for i in range(0, len(folders), batch_size)]
BatchFolders(folders, size) ==
  [n \in 1..((Len(folders) + size - 1) \div size) |->
     SubSeq(folders, (n - 1) * size + 1, Min(n * size, Len(folders)))]

\* (a filter that lets every folder through)
FoldersToSyncAll(folders, previously_synced) == folders

\* folders_to_sync = [f for f in folders if f not in previously_synced]
FoldersToSync(folders, previously_synced) ==
  LET Keep(f) == f \notin previously_synced IN SelectSeq(folders, Keep)

\* The state of one call of run_imapsync_for_folders: st is "pending" (submitted),
\* "running" (child started), "exited" (the call returned or raised) or "processed"
\* (its result was consumed); texp is token_expired while the child runs; res is
\* what the call handed back: "ok", "expired" ("Token expired") or "fail" (any other
\* failure, an exception included: the as_completed loop treats them alike).
NoInvocation == [st |-> "pending", texp |-> FALSE, res |-> "none"]

\* if token_expired: "Token expired" / elif returncode == 0: success / else: failure
Classify(texp, rc) ==
  IF texp THEN "expired" ELSE IF rc = 0 THEN "ok" ELSE "fail"

\* One output line read by the supervisor loop.
LineEffect(inv, kind) == [inv EXCEPT !.texp = @ \/ kind = "marker"]

\* process.wait() returned rc: the call returns its classification.
Exited(inv, rc) ==
  [inv EXCEPT !.st = "exited", !.texp = FALSE, !.res = Classify(inv.texp, rc)]

\* The message of a failed call, as far as "Token expired" in message tells them apart.
MessageOf(res) == IF res = "expired" THEN "Token expired" ELSE "other"

\* What load_sync_state can find when a run starts: no file, or the file an earlier
\* run left that synced the first batch of a1 and failed on the rest.
InitialCheckpoints ==
  { [a \in Accounts |-> {}],
    [a \in Accounts |-> IF a = "a1" THEN SeqToSet(BatchFolders(FolderList(a), BatchSize)[1])
                                    ELSE {}] }

InitSched ==
  /\ oauth \in BOOLEAN
  /\ \E p \in CallParameters :
       /\ max_parallel = p.max_parallel
       /\ max_workers = p.max_workers
       /\ dry_run = p.dry_run
  /\ shutdown = FALSE
  /\ ckpt \in InitialCheckpoints
  /\ opc = "idle"
  /\ apc = [a \in Accounts |-> "none"]
  /\ discovered = [a \in Accounts |-> <<>>]
  /\ discovery = [a \in Accounts |-> NoDiscovery]
  /\ local = [a \in Accounts |-> [b \in Accounts |-> {}]]
  /\ batches = [a \in Accounts |-> <<>>]
  /\ bst = [a \in Accounts |-> <<>>]
  /\ failed_batches = [a \in Accounts |-> <<>>]
  /\ rpos = [a \in Accounts |-> 0]
  /\ rinv = [a \in Accounts |-> NoInvocation]
  /\ progFailed = [a \in Accounts |-> FALSE]
  /\ result = [a \in Accounts |-> "none"]
  /\ okFolders = ckpt
  /\ tripOk = [a \in Accounts |-> {}]
  /\ writes = [a \in Accounts |-> <<>>]
  /\ rruns = [a \in Accounts |-> <<>>]
  /\ allruns = [a \in Accounts |-> 0]

\* (the probe's failure is ignored: the run goes on)
AfterProbeIgnored(probe_ok) == "running"

\* except Exception: "Failed to connect to destination server", return
AfterProbe(probe_ok) == IF probe_ok THEN "running" ELSE "done"

\* sync_accounts_parallel up to the submission of the account tasks: the probe of the
\* destination, then one task per account that has a destination password.
StartRun ==
  /\ opc = "idle"
  /\ qpc = "idle"
  /\ probes' = probes + 1
  /\ \E probe_ok \in BOOLEAN :
       /\ probeFailed' = ~probe_ok
       /\ opc' = AfterProbe(probe_ok)
       /\ IF opc' = "running"
            THEN apc' = [a \in Accounts |-> IF HasDestPassword(a) THEN "queued" ELSE "skipped"]
            ELSE UNCHANGED apc
  /\ UNCHANGED <<cfgvars, supvars, tokvars, retryvars, destpw, saves, seqvars, allruns, oauth, discovery, max_parallel, max_workers, dry_run, shutdown, ckpt, discovered,
                 local, batches, bst, failed_batches, rpos, rinv, progFailed, result,
                 okFolders, tripOk, writes, rruns>>

\* (an empty folder list is batched like any other)
AfterDiscoveryNoFallback(found) == "load"

\* if not folders: return self.run_imapsync_all_folders(...)
AfterDiscovery(found) == IF found = <<>> THEN "fallback" ELSE "load"

\* ThreadPoolExecutor(max_workers=workers): a submitted task is started when
\* fewer than `workers` tasks are running.
WorkerFree(busy, workers) == busy < workers

\* The accounts whose task a worker of the outer executor is running.
Active == {a \in Accounts : apc[a] \in {"load", "fallback", "pool", "retry", "final"}}

\* The accounts submitted before a.
Earlier(a) ==
  {AccountOrder[k] : k \in {j \in 1..Len(AccountOrder) :
                             \E m \in (j + 1)..Len(AccountOrder) : AccountOrder[m] = a}}

\* (TimeoutExpired and other exceptions leave get_account_folders)
GetAccountFoldersUncaught(a, how) ==
  [raised |-> how \in {"error", "timeout"},
   folders |-> IF how = "listed" THEN FolderList(a) ELSE <<>>]

\* get_account_folders: the whole body is inside try ... except Exception:
\* return [].
GetAccountFolders(a, how) ==
  [raised |-> FALSE, folders |-> IF how = "listed" THEN FolderList(a) ELSE <<>>]

\* The credential on the command line of the child of get_account_folders:
\* `if token:` has no else, the command is run without --oauthaccesstoken1
\* and without --password1 when get_valid_token returned None.
DiscoveryChild(a, how, token) ==
  IF how \in {"nomanager", "error"} THEN "none"
  ELSE IF ~IsOffice365(a) THEN "password"
  ELSE IF token THEN "token" ELSE "nothing"

\* sync_account_parallel: folders = self.get_account_folders(account). The
\* executor starts the tasks in the order of their submission. A child that
\* was given no credential lists no folder.
Discover(a) ==
  /\ apc[a] = "queued"
  /\ \A b \in Earlier(a) : apc[b] # "queued"
  /\ WorkerFree(Cardinality(Active), max_parallel)
  /\ \E how \in DiscoveryEnds, token \in BOOLEAN :
       LET r == GetAccountFolders(a, how) IN
         /\ how = "nomanager" <=> (IsOffice365(a) /\ ~oauth)
         /\ token => (IsOffice365(a) /\ oauth)
         /\ (IsOffice365(a) /\ ~token) => how # "listed"
         /\ discovery' = [discovery EXCEPT ![a] =
                            [end |-> how, child |-> DiscoveryChild(a, how, token)]]
         /\ IF r.raised
              THEN /\ result' = [result EXCEPT ![a] = "raised"]
                   /\ apc' = [apc EXCEPT ![a] = "done"]
                   /\ UNCHANGED discovered
              ELSE /\ discovered' = [discovered EXCEPT ![a] = r.folders]
                   /\ apc' = [apc EXCEPT ![a] = AfterDiscovery(r.folders)]
                   /\ UNCHANGED result
  /\ UNCHANGED <<cfgvars, supvars, tokvars, retryvars, runvars, seqvars, allruns, oauth,
                 max_parallel, max_workers, dry_run, shutdown, ckpt, opc, local,
                 batches, bst, failed_batches, rpos, rinv, progFailed,
                 okFolders, tripOk, writes, rruns>>

\* run_imapsync_all_folders reaches subprocess.run only when the tool was found and,
\* for an Office 365 account, a token was obtained.
StartsChild(how) == how \in {"ok", "fail"}

\* run_imapsync_all_folders, the fallback when no folder list was obtained: the tool
\* is missing (raises), or no token is to be had, or the child runs to its exit code.
Fallback(a) ==
  /\ apc[a] = "fallback"
  /\ \E how \in {"raised", "notoken", "ok", "fail"} :
       /\ how = "notoken" => IsOffice365(a)
       /\ (IsOffice365(a) /\ ~oauth) => how \in {"raised", "notoken"}
       /\ result' = [result EXCEPT ![a] = IF how = "notoken" THEN "fail" ELSE how]
       /\ allruns' = [allruns EXCEPT ![a] = IF StartsChild(how) THEN @ + 1 ELSE @]
  /\ apc' = [apc EXCEPT ![a] = "done"]
  /\ UNCHANGED <<cfgvars, supvars, tokvars, retryvars, runvars, seqvars, oauth, discovery, max_parallel, max_workers, dry_run, shutdown, ckpt, opc, discovered,
                 local, batches, bst, failed_batches, rpos, rinv, progFailed,
                 okFolders, tripOk, writes, rruns>>

\* sync_state = self.load_sync_state() ... folder_batches = self.batch_folders(...),
\* and the submission of every batch to the executor.
LoadState(a) ==
  /\ apc[a] = "load"
  /\ local' = [local EXCEPT ![a] = ckpt]
  /\ LET fb == BatchFolders(FoldersToSync(discovered[a], ckpt[a]), BatchSize) IN
       /\ batches' = [batches EXCEPT ![a] = fb]
       /\ bst' = [bst EXCEPT ![a] = [i \in 1..Len(fb) |-> NoInvocation]]
       /\ writes' = [writes EXCEPT ![a] = [i \in 1..Len(fb) |-> 0]]
       /\ rruns' = [rruns EXCEPT ![a] = [i \in 1..Len(fb) |-> 0]]
       /\ apc' = [apc EXCEPT ![a] = IF fb = <<>> THEN "final" ELSE "pool"]
  /\ UNCHANGED <<cfgvars, supvars, tokvars, retryvars, runvars, seqvars, allruns, oauth, discovery, max_parallel, max_workers, dry_run, shutdown, ckpt, opc, discovered,
                 failed_batches, rpos, rinv, progFailed, result,
                 okFolders, tripOk>>

Running(a) == {i \in 1..Len(bst[a]) : bst[a][i].st = "running"}

AllProcessed(states) == \A i \in 1..Len(states) : states[i].st = "processed"

\* The call of batch i of account a has returned `inv`: the progress update under
\* progress_lock, and the bookkeeping of what was transferred successfully.
CallReturns(a, i, inv) ==
  okFolders' = [okFolders EXCEPT ![a] =
                  IF inv.res = "ok" THEN @ \cup SeqToSet(batches[a][i]) ELSE @]

\* An "error"/"failed" line puts the current folder into failed_folders, which the
\* call adds to account_progress when it returns; Final is its only reader.
NoteLine(a, kind) == progFailed' = [progFailed EXCEPT ![a] = @ \/ kind = "error"]

\* A worker of the account's executor takes the next submitted batch and runs
\* run_imapsync_for_folders up to the child's start: the tool is missing (raises),
\* the call fails before a child runs (no token, Popen fails), or the child starts.
Launch(a, i) ==
  /\ apc[a] = "pool"
  /\ i \in 1..Len(bst[a])
  /\ bst[a][i].st = "pending"
  /\ \A j \in 1..(i - 1) : bst[a][j].st # "pending"
  /\ WorkerFree(Cardinality(Running(a)), max_workers)
  /\ \E how \in {"raised", "failed", "started"} :
       /\ bst' = [bst EXCEPT ![a][i] =
                    IF how = "started" THEN [@ EXCEPT !.st = "running"]
                    ELSE [@ EXCEPT !.st = "exited", !.res = "fail"]]
  /\ UNCHANGED <<cfgvars, supvars, tokvars, retryvars, runvars, seqvars, allruns, oauth, discovery, max_parallel, max_workers, dry_run, shutdown, ckpt, opc, apc, discovered, local, batches,
                 failed_batches, rpos, rinv, progFailed, result,
                 okFolders, tripOk, writes, rruns>>

\* The supervisor loop reads one line of the child; with the shutdown flag set it
\* then terminates the child and waits for it (a child that had already finished
\* keeps its own return code).
ReadLine(a, i) ==
  /\ i \in 1..Len(bst[a])
  /\ bst[a][i].st = "running"
  /\ \E kind \in LineKinds :
       LET inv == LineEffect(bst[a][i], kind) IN
         /\ NoteLine(a, kind)
         /\ IF shutdown
              THEN \E rc \in {0, 1} :
                     /\ bst' = [bst EXCEPT ![a][i] = Exited(inv, rc)]
                     /\ CallReturns(a, i, Exited(inv, rc))
              ELSE /\ bst' = [bst EXCEPT ![a][i] = inv]
                   /\ UNCHANGED okFolders
  /\ UNCHANGED <<cfgvars, supvars, tokvars, retryvars, runvars, seqvars, allruns, oauth, discovery, max_parallel, max_workers, dry_run, shutdown, ckpt, opc, apc, discovered, local, batches,
                 failed_batches, rpos, rinv, result, tripOk, writes, rruns>>

\* readline() returns '' and the child has exited with rc.
ReadEOF(a, i) ==
  /\ i \in 1..Len(bst[a])
  /\ bst[a][i].st = "running"
  /\ \E rc \in {0, 1} :
       /\ bst' = [bst EXCEPT ![a][i] = Exited(@, rc)]
       /\ CallReturns(a, i, Exited(bst[a][i], rc))
  /\ UNCHANGED <<cfgvars, supvars, tokvars, retryvars, runvars, seqvars, allruns, oauth, discovery, max_parallel, max_workers, dry_run, shutdown, ckpt, opc, apc, discovered, local, batches,
                 failed_batches, rpos, rinv, progFailed, result, tripOk, writes, rruns>>

\* The failure branches of the as_completed loop: failed_batches.append(...), and for
\* "Token expired" the call of self.oauth_manager.refresh_access_token(), a method
\* OAuth2Manager does not have: the AttributeError is caught by the loop's except
\* clause, which appends the batch again.
RecordFailure(fb, i, res, has_oauth) ==
  IF res = "expired" /\ has_oauth
    THEN Append(Append(fb, <<i, MessageOf(res)>>), <<i, "other">>)
    ELSE Append(fb, <<i, MessageOf(res)>>)

\* A checkpoint update that replaces the account's entry instead of extending it.
MarkSyncedReplace(state, a, folders) == [state EXCEPT ![a] = SeqToSet(folders)]

\* account_state['synced_folders'] = list(set(...) | set(batch_folders));
\* sync_state[account.email] = account_state
MarkSynced(state, a, folders) == [state EXCEPT ![a] = @ \cup SeqToSet(folders)]

\* After the executor has drained: the retry loop, if there is anything to retry.
AfterPool(a, fb) == IF fb # <<>> /\ IsOffice365(a) /\ oauth THEN "retry" ELSE "final"

\* One iteration of `for future in as_completed(future_to_batch)`.
ProcessResult(a, i) ==
  /\ apc[a] = "pool"
  /\ i \in 1..Len(bst[a])
  /\ bst[a][i].st = "exited"
  /\ bst' = [bst EXCEPT ![a][i].st = "processed"]
  /\ IF bst[a][i].res = "ok"
       THEN /\ local' = [local EXCEPT ![a] = MarkSynced(@, a, batches[a][i])]
            /\ ckpt' = local'[a]
            /\ writes' = [writes EXCEPT ![a][i] = @ + 1]
            /\ UNCHANGED failed_batches
       ELSE /\ failed_batches' = [failed_batches EXCEPT ![a] =
                                    RecordFailure(@, i, bst[a][i].res, oauth)]
            /\ UNCHANGED <<local, ckpt, writes>>
  /\ IF AllProcessed(bst'[a])
       THEN /\ apc' = [apc EXCEPT ![a] = AfterPool(a, failed_batches'[a])]
            /\ rpos' = [rpos EXCEPT ![a] = 1]
       ELSE UNCHANGED <<apc, rpos>>
  /\ UNCHANGED <<cfgvars, supvars, tokvars, retryvars, runvars, seqvars, allruns, oauth, discovery, max_parallel, max_workers, dry_run, shutdown, opc, discovered, batches, rinv, progFailed,
                 result, okFolders, tripOk, rruns>>

\* The batch the retry loop is at.
RetryBatch(a) == failed_batches[a][rpos[a]][1]

\* The retry loop moves to its next entry, or is through.
RetryAdvance(a) ==
  /\ rpos' = [rpos EXCEPT ![a] = @ + 1]
  /\ apc' = [apc EXCEPT ![a] = IF rpos[a] = Len(failed_batches[a]) THEN "final" ELSE "retry"]

\* The retry loop calls run_imapsync_for_folders for its next entry; a RuntimeError
\* (tool missing) leaves sync_account_parallel.
RetryLaunch(a) ==
  /\ apc[a] = "retry"
  /\ rinv[a].st = "pending"
  /\ \E how \in {"raised", "failed", "started"} :
       CASE how = "raised" ->
              /\ result' = [result EXCEPT ![a] = "raised"]
              /\ apc' = [apc EXCEPT ![a] = "done"]
              /\ UNCHANGED <<rpos, rinv, rruns>>
         [] how = "failed" ->
              /\ RetryAdvance(a)
              /\ UNCHANGED <<result, rinv, rruns>>
         [] how = "started" ->
              /\ rinv' = [rinv EXCEPT ![a].st = "running"]
              /\ rruns' = [rruns EXCEPT ![a][RetryBatch(a)] = @ + 1]
              /\ UNCHANGED <<result, apc, rpos>>
  /\ UNCHANGED <<cfgvars, supvars, tokvars, retryvars, runvars, seqvars, allruns, oauth, discovery, max_parallel, max_workers, dry_run, shutdown, ckpt, opc, discovered, local, batches, bst,
                 failed_batches, progFailed, okFolders, tripOk, writes>>

\* The retried call returns `inv`; on success the checkpoint is updated and saved.
RetryReturns(a, inv) ==
  /\ CallReturns(a, RetryBatch(a), inv)
  /\ rinv' = [rinv EXCEPT ![a] = NoInvocation]
  /\ RetryAdvance(a)
  /\ IF inv.res = "ok"
       THEN /\ local' = [local EXCEPT ![a] = MarkSynced(@, a, batches[a][RetryBatch(a)])]
            /\ ckpt' = local'[a]
            /\ writes' = [writes EXCEPT ![a][RetryBatch(a)] = @ + 1]
       ELSE UNCHANGED <<local, ckpt, writes>>

RetryReadLine(a) ==
  /\ apc[a] = "retry"
  /\ rinv[a].st = "running"
  /\ \E kind \in LineKinds :
       LET inv == LineEffect(rinv[a], kind) IN
         /\ NoteLine(a, kind)
         /\ IF shutdown
              THEN \E rc \in {0, 1} : RetryReturns(a, Exited(inv, rc))
              ELSE /\ rinv' = [rinv EXCEPT ![a] = inv]
                   /\ UNCHANGED <<okFolders, rpos, apc, local, ckpt, writes>>
  /\ UNCHANGED <<cfgvars, supvars, tokvars, retryvars, runvars, seqvars, allruns, oauth, discovery, max_parallel, max_workers, dry_run, shutdown, opc, discovered, batches, bst,
                 failed_batches, result, tripOk, rruns>>

RetryReadEOF(a) ==
  /\ apc[a] = "retry"
  /\ rinv[a].st = "running"
  /\ \E rc \in {0, 1} : RetryReturns(a, Exited(rinv[a], rc))
  /\ UNCHANGED <<cfgvars, supvars, tokvars, retryvars, runvars, seqvars, allruns, progFailed, oauth, discovery, max_parallel, max_workers, dry_run, shutdown, opc, discovered, batches, bst,
                 failed_batches, result, tripOk, rruns>>

\* The final summary of sync_account_parallel: failed_count == 0 decides.
Final(a) ==
  /\ apc[a] = "final"
  /\ result' = [result EXCEPT ![a] = IF progFailed[a] THEN "fail" ELSE "ok"]
  /\ apc' = [apc EXCEPT ![a] = "done"]
  /\ UNCHANGED <<cfgvars, supvars, tokvars, retryvars, runvars, seqvars, allruns, oauth, discovery, max_parallel, max_workers, dry_run, shutdown, ckpt, opc, discovered, local, batches, bst,
                 failed_batches, rpos, rinv, progFailed,
                 okFolders, tripOk, writes, rruns>>

\* The accounts for which a task was submitted (account_tasks).
AccountTasks == {a \in Accounts : apc[a] # "skipped"}

\* After each completed account the loop of sync_accounts_parallel looks, when
\* accounts remain (remaining > 0), for the queued row with str(row[1]): the
\* elements of table.rows are rich's Row objects, which cannot be subscripted,
\* and this TypeError is raised outside the try of the loop body.
TableUpdateRaises(tasks) == Cardinality(tasks) > 1

\* sync_accounts_parallel after the last account's future: the summary and
\* save_configuration, or the TypeError of the table update, which leaves
\* sync_accounts_parallel once the executor has waited for every account.
FinishRun ==
  /\ opc = "running"
  /\ \A a \in Accounts : apc[a] \in {"done", "skipped"}
  /\ opc' = "done"
  /\ saves' = IF TableUpdateRaises(AccountTasks) THEN saves ELSE saves + 1
  /\ UNCHANGED <<cfgvars, supvars, tokvars, retryvars, destpw, probes, probeFailed, seqvars, allruns, oauth, discovery, max_parallel, max_workers, dry_run, shutdown, ckpt, apc, discovered, local, batches, bst,
                 failed_batches, rpos, rinv, progFailed, result,
                 okFolders, tripOk, writes, rruns>>

\* shutdown_event.set() while the run is under way.
TripShutdown ==
  /\ opc = "running"
  /\ ~shutdown
  /\ shutdown' = TRUE
  /\ tripOk' = okFolders
  /\ UNCHANGED <<cfgvars, supvars, tokvars, retryvars, runvars, seqvars, allruns, oauth, discovery, max_parallel, max_workers, dry_run, ckpt, opc, apc, discovered, local, batches, bst,
                 failed_batches, rpos, rinv, progFailed, result,
                 okFolders, writes, rruns>>

NextSched ==
  \/ StartRun
  \/ \E a \in Accounts : Discover(a)
  \/ \E a \in Accounts : Fallback(a)
  \/ \E a \in Accounts : LoadState(a)
  \/ \E a \in Accounts, i \in 1..2 : Launch(a, i)
  \/ \E a \in Accounts, i \in 1..2 : ReadLine(a, i)
  \/ \E a \in Accounts, i \in 1..2 : ReadEOF(a, i)
  \/ \E a \in Accounts, i \in 1..2 : ProcessResult(a, i)
  \/ \E a \in Accounts : RetryLaunch(a)
  \/ \E a \in Accounts : RetryReadLine(a)
  \/ \E a \in Accounts : RetryReadEOF(a)
  \/ \E a \in Accounts : Final(a)
  \/ FinishRun
  \/ TripShutdown



\* ------------------------------------------- SyncManager.run_imapsync_with_retry
\* Python's None, as a text value.
None == <<"null">>

\* EmailAccount.__init__ sync_stats
DefaultStats == [synced_messages |-> 0, last_sync |-> None]

RECURSIVE Pow2(_)
Pow2(n) == IF n = 0 THEN 1 ELSE 2 * Pow2(n - 1)

\* (one more pass: the last failure sleeps too and the loop runs out)
MoreAttemptsInclusive(n, max) == n <= max

\* if attempt < max_retries
MoreAttempts(n, max) == n < max

\* time.sleep(2 ** attempt)
Backoff(n) == Pow2(n)

NoOutcome == [ok |-> FALSE, msg |-> "none", n |-> 0]

NoConnTest == [made |-> FALSE, token |-> FALSE, ok |-> FALSE]

InitRetryIdle ==
  /\ acct = [email |-> "a2", is_office365 |-> FALSE, password |-> FALSE, oauth |-> FALSE]
  /\ sync_stats = [a \in Accounts |-> DefaultStats]
  /\ ended = "none"
  /\ max_retries = 0
  /\ rpc = "done"
  /\ attempt = 0
  /\ attempts = 0
  /\ raisedAll = TRUE
  /\ delays = <<>>
  /\ toolMissing = FALSE
  /\ conn = NoConnTest
  /\ outcome = NoOutcome

InitRetry ==
  /\ \E a \in Accounts, pw, om \in BOOLEAN :
       acct = [email |-> a, is_office365 |-> IsOffice365(a), password |-> pw, oauth |-> om]
  /\ sync_stats = [a \in Accounts |-> DefaultStats]
  /\ ended = "none"
  /\ max_retries \in 0..MaxRetries
  /\ rpc = "entry"
  /\ attempt = 0
  /\ attempts = 0
  /\ raisedAll = TRUE
  /\ delays = <<>>
  /\ toolMissing = FALSE
  /\ conn = NoConnTest
  /\ outcome = NoOutcome

\* (whichever credential the account has will do)
TestConnectionAnyCredential(account, token_ok) ==
  (account.oauth /\ token_ok) \/ account.password

\* test_connection: an Office 365 account needs the OAuth manager and a token from
\* get_valid_token, any other account a configured password.
TestConnection(account, token_ok) ==
  IF account.is_office365 THEN account.oauth /\ token_ok ELSE account.password

\* run_imapsync_with_retry up to the loop: the connection test, then the skip of a
\* password account when there is no OAuth manager.
RetryEntry ==
  /\ rpc = "entry"
  /\ \E token_ok \in BOOLEAN :
       /\ conn' = [made |-> TRUE, token |-> token_ok, ok |-> TestConnection(acct, token_ok)]
       /\ IF ~TestConnection(acct, token_ok)
         THEN /\ outcome' = [ok |-> FALSE, msg |-> "Connection test failed", n |-> 0]
              /\ rpc' = "done"
              /\ UNCHANGED attempt
         ELSE IF ~acct.is_office365 /\ ~acct.oauth
           THEN /\ outcome' = [ok |-> FALSE, msg |-> "Skipped non-o365 account without OAuth",
                               n |-> 0]
                /\ rpc' = "done"
                /\ UNCHANGED attempt
           ELSE IF max_retries = 0
             THEN /\ outcome' = [ok |-> FALSE, msg |-> "No sync attempts made", n |-> 0]
                  /\ rpc' = "done"
                  /\ UNCHANGED attempt
             ELSE /\ rpc' = "loop"
                  /\ attempt' = 1
                  /\ UNCHANGED outcome
  /\ UNCHANGED <<cfgvars, supvars, tokvars, schedvars, runvars, seqvars, acct, sync_stats, ended, max_retries, attempts, raisedAll,
                 delays, toolMissing>>

\* How a call of _run_imapsync can end: it returns success (the child exited 0) or
\* the failure to get a token, or it raises RuntimeError because imapsync was not
\* found or because the child exited with a nonzero code, by itself ("nonzero") or
\* terminated when the shutdown flag was seen ("terminated").
AttemptEnds == {"ok", "notoken", "missing", "nonzero", "terminated"}
Raises(how) == how \in {"missing", "nonzero", "terminated"}

\* messages_processed, the first number of the last "n/m msg" line of the child.
Messages == 0..MaxMessages

\* (the statistics are brought up to date after every attempt)
UpdateStatsAlways(stats, how, messages_processed) ==
  [synced_messages |-> stats.synced_messages + messages_processed, last_sync |-> <<"now">>]

\* if process.returncode == 0: account.sync_stats['last_sync'] = datetime.now()...;
\* account.sync_stats['synced_messages'] += messages_processed
UpdateStats(stats, how, messages_processed) ==
  IF how = "ok"
    THEN [synced_messages |-> stats.synced_messages + messages_processed,
          last_sync |-> <<"now">>]
    ELSE stats

\* One pass of the loop.
RetryAttempt ==
  /\ rpc = "loop"
  /\ attempts' = attempts + 1
  /\ \E how \in AttemptEnds, messages_processed \in Messages :
       /\ how = "notoken" => acct.is_office365
       /\ how \in {"notoken", "missing"} => messages_processed = 0
       /\ ended' = how
       /\ sync_stats' = [sync_stats EXCEPT ![acct.email] = UpdateStats(@, how, messages_processed)]
       /\ raisedAll' = (raisedAll /\ Raises(how))
       /\ toolMissing' = (toolMissing \/ how = "missing")
       /\ CASE how = "ok" ->
                 /\ outcome' = [ok |-> TRUE, msg |-> "Sync completed successfully", n |-> 0]
                 /\ rpc' = "done"
            [] how = "notoken" ->
                 /\ outcome' = [ok |-> FALSE, msg |-> "Failed to get OAuth2 token", n |-> 0]
                 /\ rpc' = "done"
            [] Raises(how) ->
                 IF MoreAttempts(attempt, max_retries)
                   THEN /\ rpc' = "sleep"
                        /\ UNCHANGED outcome
                   ELSE /\ outcome' = [ok |-> FALSE, msg |-> "Sync failed after n attempts",
                                       n |-> max_retries]
                        /\ rpc' = "done"
  /\ UNCHANGED <<cfgvars, supvars, tokvars, schedvars, runvars, seqvars, acct, max_retries, attempt, delays, conn>>

\* time.sleep(2 ** attempt), then the next pass (or the end of the loop).
RetrySleep ==
  /\ rpc = "sleep"
  /\ delays' = Append(delays, Backoff(attempt))
  /\ attempt' = attempt + 1
  /\ IF attempt + 1 <= max_retries
       THEN /\ rpc' = "loop"
            /\ UNCHANGED outcome
       ELSE /\ outcome' = [ok |-> FALSE, msg |-> "No sync attempts made", n |-> 0]
            /\ rpc' = "done"
  /\ UNCHANGED <<cfgvars, supvars, tokvars, schedvars, runvars, seqvars, acct, sync_stats, ended, max_retries, attempts, raisedAll,
                 toolMissing, conn>>

NextRetry ==
  \/ RetryEntry
  \/ RetryAttempt
  \/ RetrySleep

\* ------------------------------------------------- SyncManager.sync_accounts
\* run_imapsync_with_retry(..., max_retries: int = 3), as sync_accounts calls it
DefaultMaxRetries == 3

\* if not self._test_destination_connection_silent(): ... return
SeqAfterProbe(probe_ok) == IF probe_ok THEN "loop" ELSE "done"

\* The loop goes to its next account, or is through.
SeqAdvance ==
  /\ qi' = qi + 1
  /\ qpc' = IF qi < Len(AccountOrder) THEN "loop" ELSE "end"

\* sync_accounts up to the loop: the test of the destination server.
SeqStart ==
  /\ qpc = "idle"
  /\ opc = "idle"
  /\ probes' = probes + 1
  /\ \E probe_ok \in BOOLEAN :
       /\ probeFailed' = ~probe_ok
       /\ qpc' = SeqAfterProbe(probe_ok)
  /\ qi' = 1
  /\ UNCHANGED <<cfgvars, supvars, tokvars, schedvars, retryvars, destpw, saves, qout, announced>>

\* The head of one iteration: an account without a destination password is reported
\* and passed over (continue); for any other, run_imapsync_with_retry is called.
SeqAccount ==
  /\ qpc = "loop"
  /\ LET a == AccountOrder[qi] IN
       IF ~HasDestPassword(a)
         THEN /\ qout' = [qout EXCEPT ![a] = "skipped"]
              /\ SeqAdvance
              /\ UNCHANGED retryvars
         ELSE /\ qpc' = "call"
              /\ \E pw \in BOOLEAN :
                   acct' = [email |-> a, is_office365 |-> IsOffice365(a), password |-> pw,
                            oauth |-> oauth]
              /\ ended' = "none"
              /\ max_retries' = DefaultMaxRetries
              /\ rpc' = "entry"
              /\ attempt' = 0
              /\ attempts' = 0
              /\ raisedAll' = TRUE
              /\ delays' = <<>>
              /\ outcome' = NoOutcome
              /\ conn' = NoConnTest
              /\ UNCHANGED <<toolMissing, sync_stats>>
              /\ UNCHANGED <<qi, qout>>
  /\ UNCHANGED <<cfgvars, supvars, tokvars, schedvars, runvars, announced>>

\* run_imapsync_with_retry has returned: the account's line is printed, then the
\* shutdown flag is looked at.
SeqReturn ==
  /\ qpc = "call"
  /\ rpc = "done"
  /\ qout' = [qout EXCEPT ![AccountOrder[qi]] = IF outcome.ok THEN "ok" ELSE "fail"]
  /\ IF shutdown
       THEN qpc' = "end" /\ UNCHANGED qi
       ELSE SeqAdvance
  /\ UNCHANGED <<cfgvars, supvars, tokvars, schedvars, retryvars, runvars, announced>>

\* After the loop: "All N accounts synchronized!" unless the shutdown flag is set;
\* save_configuration.
SeqFinish ==
  /\ qpc = "end"
  /\ announced' = ~shutdown
  /\ qpc' = "done"
  /\ saves' = saves + 1
  /\ UNCHANGED <<cfgvars, supvars, tokvars, schedvars, retryvars, destpw, probes, probeFailed,
                 qi, qout>>

\* shutdown_event.set() while sync_accounts is under way.
SeqTripShutdown ==
  /\ qpc \in {"loop", "call", "end"}
  /\ ~shutdown
  /\ shutdown' = TRUE
  /\ UNCHANGED <<cfgvars, supvars, tokvars, retryvars, runvars, seqvars, oauth, discovery, max_parallel, max_workers, dry_run, ckpt, opc, apc, discovered,
                 local, batches, bst, failed_batches, rpos, rinv, progFailed, result,
                 okFolders, tripOk, writes, rruns, allruns>>

NextSeq ==
  \/ SeqStart
  \/ SeqAccount
  \/ NextRetry
  \/ SeqReturn
  \/ SeqFinish
  \/ SeqTripShutdown

\* One run of either orchestrator.
NextRun ==
  \/ NextSched
  \/ NextSeq

\* ------------------------------------------------------------ ConfigManager
\* Text values (passwords, time stamps) are sequences of pieces, so that a
\* Fernet token is its prefix followed by what it encrypts.
EmptyStr == <<>>
FernetPrefix == "gAAAAAB"
Key == "key"

\* `if x:` for a value that is a string or None
Truthy(x) == x # None /\ x # EmptyStr

\* x.startswith('gAAAAAB')
StartsWithPrefix(x) == Len(x) >= 1 /\ x[1] = FernetPrefix

\* self._fernet.decrypt(x) succeeds: x is a token made with this key
IsToken(x) == Len(x) >= 2 /\ x[1] = FernetPrefix /\ x[2] = Key

\* (decrypt that takes off one layer only)
DecryptOnce(encrypted) ==
  IF IsToken(encrypted) THEN SubSeq(encrypted, 3, Len(encrypted)) ELSE encrypted

\* ConfigManager.encrypt
Encrypt(data) == <<FernetPrefix, Key>> \o data

\* ConfigManager.decrypt: a result that still looks like a token is decrypted
\* once more when that works; what cannot be decrypted is returned as it is.
Decrypt(encrypted) ==
  IF IsToken(encrypted)
    THEN LET decrypted == SubSeq(encrypted, 3, Len(encrypted)) IN
         IF StartsWithPrefix(decrypted) /\ IsToken(decrypted)
           THEN SubSeq(decrypted, 3, Len(decrypted))
           ELSE decrypted
    ELSE encrypted

Emails == {"u1", "u2"}
CfgThreads == {"k1", "k2"}
Settings == {"host", "port"}

\* EmailAccount.__init__: dest_email or email
EmailAccount(email, password, is_office365, dest_email) ==
  [email |-> email, password |-> password, is_office365 |-> is_office365,
   dest_email |-> IF dest_email # "" THEN dest_email ELSE email,
   sync_stats |-> DefaultStats]

\* self.dest_config = {}
EmptyDest == [settings |-> <<>>, haspw |-> FALSE, passwords |-> <<>>]

NoFile == [exists |-> FALSE]

\* next((acc for acc in self.accounts if acc.email == email), None): its position, 0 for None
FindAccount(accs, email) ==
  IF \E i \in 1..Len(accs) : accs[i].email = email
    THEN CHOOSE i \in 1..Len(accs) :
           accs[i].email = email /\ \A j \in 1..(i - 1) : accs[j].email # email
    ELSE 0

\* self.accounts.remove(accs[i])
RemoveAt(accs, i) == [j \in 1..(Len(accs) - 1) |-> IF j < i THEN accs[j] ELSE accs[j + 1]]

\* d[k] = v
SetKey(d, k, v) == [x \in DOMAIN d \cup {k} |-> IF x = k THEN v ELSE d[x]]

\* del d[k]
DelKey(d, k) == [x \in DOMAIN d \ {k} |-> d[x]]

\* save_configuration builds the dictionary it writes: every destination
\* password encrypted, every non-empty account password encrypted, and with
\* oauth_manager None no oauth_config entry.
SaveConfiguration(accs, dest) ==
  [exists |-> TRUE,
   destination |->
     [settings |-> dest.settings, haspw |-> dest.haspw,
      passwords |-> [d \in DOMAIN dest.passwords |-> Encrypt(dest.passwords[d])]],
   accounts |->
     [i \in 1..Len(accs) |->
        [accs[i] EXCEPT !.password =
           IF Truthy(accs[i].password) THEN Encrypt(accs[i].password)
           ELSE accs[i].password]]]

\* _is_legacy_config_format: some stored password is not a Fernet token
IsLegacyConfigFormat(config) ==
  \/ \E d \in DOMAIN config.destination.passwords :
       /\ Truthy(config.destination.passwords[d])
       /\ ~StartsWithPrefix(config.destination.passwords[d])
  \/ \E i \in 1..Len(config.accounts) :
       /\ Truthy(config.accounts[i].password)
       /\ ~StartsWithPrefix(config.accounts[i].password)

\* load_configuration on a ConfigManager that was just constructed: what
\* self.accounts and self.dest_config are afterwards.
LoadConfiguration(file) ==
  IF ~file.exists
    THEN [accounts |-> <<>>, dest_config |-> EmptyDest]
    ELSE
      [accounts |->
         [i \in 1..Len(file.accounts) |->
            LET acc_data == file.accounts[i]
                password == IF Truthy(acc_data.password)
                              THEN Decrypt(acc_data.password) ELSE acc_data.password
            IN  [EmailAccount(acc_data.email, password, acc_data.is_office365,
                              acc_data.dest_email)
                   EXCEPT !.sync_stats = acc_data.sync_stats]],
       dest_config |->
         [settings |-> file.destination.settings,
          haspw |-> TRUE,
          passwords |-> [d \in DOMAIN file.destination.passwords |->
                           Decrypt(file.destination.passwords[d])]]]

\* The calls the threads make.
PasswordAccount(e) == EmailAccount(e, <<"pw1">>, FALSE, "")
Office365Account(e) == EmailAccount(e, None, TRUE, "")
CfgCalls ==
  {[op |-> "add_or_update_account", account |-> acc, dest_password |-> dp] :
     acc \in {PasswordAccount(e) : e \in Emails} \cup {Office365Account(e) : e \in Emails},
     dp \in {None, <<"dpw1">>}}
  \cup {[op |-> "update_global_config", key |-> k] : k \in Settings}
  \cup {[op |-> "remove_account", email |-> e] : e \in Emails}
  \cup {[op |-> "update_account_password", email |-> e, is_dest_password |-> b] :
          e \in Emails, b \in BOOLEAN}
NoCall == [op |-> "none"]

\* The configurations in memory at the start: nothing; one password account
\* with destination settings; an Office 365 account that was synced once and
\* an account whose password is itself a token of this key, with a
\* destination password that only looks like one.
InitialConfigs ==
  { [accounts |-> <<>>, dest_config |-> EmptyDest],
    [accounts |-> << EmailAccount("u1", <<"pw0">>, FALSE, "d1") >>,
     dest_config |-> [settings |-> [k \in {"host"} |-> "h0"], haspw |-> TRUE,
                      passwords |-> [d \in {"d1"} |-> <<"dpw0">>]]],
    [accounts |-> << [EmailAccount("u2", None, TRUE, "")
                        EXCEPT !.sync_stats = [synced_messages |-> 1,
                                               last_sync |-> <<"2023-12-01T10:30:00">>]],
                     EmailAccount("u1", Encrypt(<<"pw0">>), FALSE, "") >>,
     dest_config |-> [settings |-> <<>>, haspw |-> TRUE,
                      passwords |-> [d \in {"u1"} |-> <<FernetPrefix, "other", "x">>]]] }

NotLoaded == [made |-> FALSE]
NoSnapshot == [config |-> NoFile]

InitConfig ==
  /\ \E m \in InitialConfigs :
       /\ accounts = m.accounts
       /\ dest_config = m.dest_config
       /\ \E ex \in BOOLEAN :
            /\ accounts_config =
                 IF ex THEN SaveConfiguration(m.accounts, m.dest_config) ELSE NoFile
            /\ setup = ex
       /\ saved = m
  /\ oauth_config \in BOOLEAN
  /\ lock = "free"
  /\ cpc = [t \in CfgThreads |-> "idle"]
  /\ call = [t \in CfgThreads |-> NoCall]
  /\ cres = [t \in CfgThreads |-> "none"]
  /\ csnap = [t \in CfgThreads |-> NoSnapshot]
  /\ loaded = NotLoaded

\* (a lock that anyone can take)
LockFreeAlways(l) == TRUE

\* with self._lock: the lock can be taken
LockFree(l) == l = "free"

\* A thread calls one of the four operations.
CfgCall(t) ==
  /\ cpc[t] = "idle"
  /\ \E c \in CfgCalls : call' = [call EXCEPT ![t] = c]
  /\ cpc' = [cpc EXCEPT ![t] = "lock"]
  /\ UNCHANGED <<supvars, tokvars, schedvars, retryvars, runvars, seqvars,
                 accounts, dest_config, oauth_config, accounts_config, lock, cres, csnap,
                 saved, loaded, setup>>

\* with self._lock:
AcquireLock(t) ==
  /\ cpc[t] = "lock"
  /\ LockFree(lock)
  /\ lock' = t
  /\ cpc' = [cpc EXCEPT ![t] = "body"]
  /\ UNCHANGED <<supvars, tokvars, schedvars, retryvars, runvars, seqvars,
                 accounts, dest_config, oauth_config, accounts_config, call, cres, csnap,
                 saved, loaded, setup>>

\* The call ends with the result r: the lock is released.
CfgReturn(t, r) ==
  /\ cpc' = [cpc EXCEPT ![t] = "done"]
  /\ cres' = [cres EXCEPT ![t] = r]
  /\ lock' = IF lock = t THEN "free" ELSE lock

\* The body goes on to save_configuration(None).
CfgToSave(t) ==
  /\ cpc' = [cpc EXCEPT ![t] = "save"]
  /\ UNCHANGED <<cres, lock>>

\* has_config in add_or_update_account: hasattr(self, 'oauth_config') holds for
\* every ConfigManager, __init__ sets the attribute.
HasConfig(file, dest) ==
  \/ file.exists
  \/ dest # EmptyDest
  \/ TRUE

\* update_global_config up to its save_configuration
UpdateGlobalConfig(t) ==
  /\ cpc[t] = "body"
  /\ call[t].op = "update_global_config"
  /\ IF ~accounts_config.exists
       THEN CfgReturn(t, "Configuration file not found") /\ UNCHANGED dest_config
       ELSE /\ \E v \in {"v1", "v2"} :
                 dest_config' = [dest_config EXCEPT
                                   !.settings = SetKey(dest_config.settings, call[t].key, v)]
            /\ CfgToSave(t)
  /\ UNCHANGED <<supvars, tokvars, schedvars, retryvars, runvars, seqvars,
                 accounts, oauth_config, accounts_config, call, csnap, saved, loaded, setup>>

\* add_or_update_account up to its save_configuration
AddOrUpdateAccount(t) ==
  /\ cpc[t] = "body"
  /\ call[t].op = "add_or_update_account"
  /\ LET account == call[t].account
         existing == FindAccount(accounts, account.email)
     IN
     IF ~HasConfig(accounts_config, dest_config)
       THEN CfgReturn(t, "Configuration file not found")
            /\ UNCHANGED <<accounts, dest_config>>
     ELSE IF account.is_office365 /\ ~oauth_config
       THEN CfgReturn(t, "OAuth2 not configured")
            /\ UNCHANGED <<accounts, dest_config>>
     ELSE
       /\ accounts' = Append(IF existing # 0 THEN RemoveAt(accounts, existing) ELSE accounts,
                             account)
       /\ dest_config' =
            IF Truthy(call[t].dest_password)
              THEN [dest_config EXCEPT
                      !.haspw = TRUE,
                      !.passwords = SetKey(dest_config.passwords, account.dest_email,
                                           call[t].dest_password)]
              ELSE dest_config
       /\ CfgToSave(t)
  /\ UNCHANGED <<supvars, tokvars, schedvars, retryvars, runvars, seqvars,
                 oauth_config, accounts_config, call, csnap, saved, loaded, setup>>

\* remove_account up to its save_configuration
RemoveAccount(t) ==
  /\ cpc[t] = "body"
  /\ call[t].op = "remove_account"
  /\ LET i == FindAccount(accounts, call[t].email) IN
     IF ~accounts_config.exists
       THEN CfgReturn(t, "Configuration file not found")
            /\ UNCHANGED <<accounts, dest_config>>
     ELSE IF i = 0
       THEN CfgReturn(t, "False") /\ UNCHANGED <<accounts, dest_config>>
     ELSE
       /\ accounts' = RemoveAt(accounts, i)
       /\ dest_config' = [dest_config EXCEPT
                            !.passwords = DelKey(dest_config.passwords, accounts[i].dest_email)]
       /\ CfgToSave(t)
  /\ UNCHANGED <<supvars, tokvars, schedvars, retryvars, runvars, seqvars,
                 oauth_config, accounts_config, call, csnap, saved, loaded, setup>>

\* update_account_password up to its save_configuration
UpdateAccountPassword(t) ==
  /\ cpc[t] = "body"
  /\ call[t].op = "update_account_password"
  /\ LET i == FindAccount(accounts, call[t].email) IN
     IF ~accounts_config.exists
       THEN CfgReturn(t, "Configuration file not found")
            /\ UNCHANGED <<accounts, dest_config>>
     ELSE IF i = 0
       THEN /\ CfgReturn(t, "Account not found")
            /\ dest_config' = IF call[t].is_dest_password
                                THEN [dest_config EXCEPT !.haspw = TRUE] ELSE dest_config
            /\ UNCHANGED accounts
     ELSE IF call[t].is_dest_password
       THEN /\ dest_config' = [dest_config EXCEPT
                                 !.haspw = TRUE,
                                 !.passwords = SetKey(dest_config.passwords,
                                                      accounts[i].dest_email, <<"dpw2">>)]
            /\ UNCHANGED accounts
            /\ CfgToSave(t)
     ELSE /\ accounts' = [accounts EXCEPT ![i].password = <<"pw2">>]
          /\ UNCHANGED dest_config
          /\ CfgToSave(t)
  /\ UNCHANGED <<supvars, tokvars, schedvars, retryvars, runvars, seqvars,
                 oauth_config, accounts_config, call, csnap, saved, loaded, setup>>

\* save_configuration builds the dictionary from what is in memory now
SaveBuild(t) ==
  /\ cpc[t] = "save"
  /\ csnap' = [csnap EXCEPT ![t] =
                [config |-> SaveConfiguration(accounts, dest_config),
                 mem |-> [accounts |-> accounts, dest_config |-> dest_config]]]
  /\ cpc' = [cpc EXCEPT ![t] = "write"]
  /\ UNCHANGED <<supvars, tokvars, schedvars, retryvars, runvars, seqvars,
                 accounts, dest_config, oauth_config, accounts_config, lock, call, cres,
                 saved, loaded, setup>>

\* save_configuration writes the file; the operation returns
SaveWrite(t) ==
  /\ cpc[t] = "write"
  /\ accounts_config' = csnap[t].config
  /\ saved' = csnap[t].mem
  /\ loaded' = NotLoaded
  /\ CfgReturn(t, IF call[t].op = "remove_account" THEN "True" ELSE "None")
  /\ UNCHANGED <<supvars, tokvars, schedvars, retryvars, runvars, seqvars,
                 accounts, dest_config, oauth_config, call, csnap, setup>>

\* A ConfigManager constructed on the same directory, with the same key file,
\* calls load_configuration. A file in the legacy format is saved again.
FreshLoad ==
  /\ \A t \in CfgThreads : cpc[t] \in {"idle", "done"}
  /\ ~loaded.made
  /\ LET l == LoadConfiguration(accounts_config) IN
       /\ loaded' = [made |-> TRUE, accounts |-> l.accounts, dest_config |-> l.dest_config]
       /\ accounts_config' =
            IF accounts_config.exists /\ IsLegacyConfigFormat(accounts_config)
              THEN SaveConfiguration(l.accounts, l.dest_config)
              ELSE accounts_config
  /\ UNCHANGED <<supvars, tokvars, schedvars, retryvars, runvars, seqvars,
                 accounts, dest_config, oauth_config, lock, cpc, call, cres, csnap, saved, setup>>

NextConfig ==
  \/ \E t \in CfgThreads : CfgCall(t)
  \/ \E t \in CfgThreads : AcquireLock(t)
  \/ \E t \in CfgThreads : UpdateGlobalConfig(t)
  \/ \E t \in CfgThreads : AddOrUpdateAccount(t)
  \/ \E t \in CfgThreads : RemoveAccount(t)
  \/ \E t \in CfgThreads : UpdateAccountPassword(t)
  \/ \E t \in CfgThreads : SaveBuild(t)
  \/ \E t \in CfgThreads : SaveWrite(t)
  \/ FreshLoad

\* ------------------------------------------- the supervisor of one child process
\* One call of a method that runs imapsync: run_imapsync_for_folders
\* ("for_folders") and SyncManager._run_imapsync ("run_imapsync") start the
\* child with Popen and read its output line by line; run_imapsync_all_folders
\* ("all_folders") hands it to subprocess.run.
Workers == {"w1", "w2"}
Kinds == {"for_folders", "run_imapsync", "all_folders"}

\* A child prints no further line and does not end by itself (silent), and it
\* ends on SIGTERM or not (ignores).
NoChild == [st |-> "none", rc |-> 0, silent |-> FALSE, ignores |-> FALSE, termed |-> FALSE]

InitSup ==
  /\ active_processes = {}
  /\ wpc = [w \in Workers |-> "idle"]
  /\ wkind = [w \in Workers |-> "none"]
  /\ child = [w \in Workers |-> NoChild]
  /\ token_expired = [w \in Workers |-> FALSE]
  /\ sawMarker = [w \in Workers |-> FALSE]
  /\ wres = [w \in Workers |-> "none"]

\* self.active_processes.append(process) follows Popen; subprocess.run keeps
\* the process to itself.
Registers(kind) == kind # "all_folders"

\* Only run_imapsync_for_folders looks for the token-expiration marker.
SeesMarker(kind) == kind = "for_folders"

\* The start of the child.
SupStart(w) ==
  /\ wpc[w] = "idle"
  /\ \E kind \in Kinds, silent, ignores \in BOOLEAN :
       /\ wkind' = [wkind EXCEPT ![w] = kind]
       /\ child' = [child EXCEPT ![w] =
                      [st |-> "running", rc |-> 0, silent |-> silent, ignores |-> ignores,
                       termed |-> FALSE]]
       /\ active_processes' =
            IF Registers(kind) THEN active_processes \cup {w} ELSE active_processes
       /\ wpc' = [wpc EXCEPT ![w] = IF kind = "all_folders" THEN "run" ELSE "read"]
  /\ UNCHANGED <<cfgvars, tokvars, schedvars, retryvars, runvars, seqvars,
                 token_expired, sawMarker, wres>>

\* The child ends: by itself, or on the SIGTERM it was sent and does not ignore.
ChildExits(w) ==
  /\ child[w].st = "running"
  /\ \/ ~child[w].silent
     \/ child[w].termed /\ ~child[w].ignores
  /\ \E rc \in {0, 1} :
       /\ child[w].silent => rc = 1
       /\ child' = [child EXCEPT ![w].st = "exited", ![w].rc = rc]
  /\ UNCHANGED <<cfgvars, tokvars, schedvars, retryvars, runvars, seqvars,
                 active_processes, wpc, wkind, token_expired, sawMarker, wres>>

\* readline() returns a line; after it the loop looks at the shutdown flag:
\* process.terminate(); break.
SupReadLine(w) ==
  /\ wpc[w] = "read"
  /\ child[w].st = "running"
  /\ ~child[w].silent
  /\ \E kind \in LineKinds :
       /\ sawMarker' = [sawMarker EXCEPT ![w] = @ \/ kind = "marker"]
       /\ token_expired' = [token_expired EXCEPT ![w] =
                              @ \/ (SeesMarker(wkind[w]) /\ kind = "marker")]
  /\ IF shutdown
       THEN /\ child' = [child EXCEPT ![w].termed = TRUE]
            /\ wpc' = [wpc EXCEPT ![w] = "wait"]
       ELSE UNCHANGED <<child, wpc>>
  /\ UNCHANGED <<cfgvars, tokvars, schedvars, retryvars, runvars, seqvars,
                 active_processes, wkind, wres>>

\* readline() raises (the child printed bytes that do not decode): the except
\* clause of run_imapsync_for_folders returns a failure, _run_imapsync has no
\* try and the exception leaves it; neither comes to process.wait() and the
\* removal from active_processes.
SupReadRaises(w) ==
  /\ wpc[w] = "read"
  /\ child[w].st = "running"
  /\ ~child[w].silent
  /\ wpc' = [wpc EXCEPT ![w] = "returned"]
  /\ wres' = [wres EXCEPT ![w] = "fail"]
  /\ UNCHANGED <<cfgvars, tokvars, schedvars, retryvars, runvars, seqvars,
                 active_processes, wkind, child, token_expired, sawMarker>>

\* readline() returns '' and process.poll() is not None: break
SupReadEOF(w) ==
  /\ wpc[w] = "read"
  /\ child[w].st = "exited"
  /\ wpc' = [wpc EXCEPT ![w] = "wait"]
  /\ UNCHANGED <<cfgvars, tokvars, schedvars, retryvars, runvars, seqvars,
                 active_processes, wkind, child, token_expired, sawMarker, wres>>

\* What the call reports for the exit code rc.
Outcome(kind, texp, rc) ==
  IF kind = "for_folders" THEN Classify(texp, rc)
  ELSE IF rc = 0 THEN "ok" ELSE "fail"

\* process.wait() returns, the process is taken out of active_processes and
\* the call reports its outcome.
SupWait(w) ==
  /\ wpc[w] = "wait"
  /\ child[w].st = "exited"
  /\ active_processes' = active_processes \ {w}
  /\ wres' = [wres EXCEPT ![w] = Outcome(wkind[w], token_expired[w], child[w].rc)]
  /\ wpc' = [wpc EXCEPT ![w] = "returned"]
  /\ UNCHANGED <<cfgvars, tokvars, schedvars, retryvars, runvars, seqvars,
                 wkind, child, token_expired, sawMarker>>

\* subprocess.run returns when the child has ended; its captured output, with
\* or without a marker in it, is not looked at.
SupRunReturns(w) ==
  /\ wpc[w] = "run"
  /\ child[w].st = "exited"
  /\ \E marker \in BOOLEAN : sawMarker' = [sawMarker EXCEPT ![w] = marker]
  /\ wres' = [wres EXCEPT ![w] = Outcome(wkind[w], token_expired[w], child[w].rc)]
  /\ wpc' = [wpc EXCEPT ![w] = "returned"]
  /\ UNCHANGED <<cfgvars, tokvars, schedvars, retryvars, runvars, seqvars,
                 active_processes, wkind, child, token_expired>>

\* shutdown_event.set(). The handler utils.signal_handler defines, which would
\* also terminate and kill the registered processes, is never installed.
SupTrip ==
  /\ ~shutdown
  /\ shutdown' = TRUE
  /\ UNCHANGED <<cfgvars, tokvars, retryvars, runvars, seqvars, supvars,
                 oauth, discovery, max_parallel, max_workers, dry_run, ckpt, opc, apc, discovered, local, batches, bst,
                 failed_batches, rpos, rinv, progFailed, result,
                 okFolders, tripOk, writes, rruns, allruns>>

NextSup ==
  \/ \E w \in Workers : SupStart(w)
  \/ \E w \in Workers : ChildExits(w)
  \/ \E w \in Workers : SupReadLine(w)
  \/ \E w \in Workers : SupReadRaises(w)
  \/ \E w \in Workers : SupReadEOF(w)
  \/ \E w \in Workers : SupWait(w)
  \/ \E w \in Workers : SupRunReturns(w)
  \/ SupTrip

\* ---------------------------------------------------------- specifications
\* Each specification runs one component and holds the others still.
TokenIdle == InitToken /\ tokens = EmptyTokens
InitRunVars ==
  destpw \in SUBSET Accounts /\ probes = 0 /\ probeFailed = FALSE /\ saves = 0
RunIdle == destpw = Accounts /\ probes = 0 /\ probeFailed = FALSE /\ saves = 0
SchedIdle ==
  InitSched /\ oauth = TRUE /\ ckpt = [a \in Accounts |-> {}] /\ max_parallel = 1
SeqIdle ==
  /\ qpc = "idle"
  /\ qi = 0
  /\ qout = [a \in Accounts |-> "none"]
  /\ announced = FALSE

ConfigIdle ==
  /\ InitConfig
  /\ accounts = <<>>
  /\ accounts_config = NoFile
  /\ oauth_config = FALSE

\* Threads calling OAuth2Manager.get_valid_token.
InitTokenRun == InitToken /\ SchedIdle /\ InitRetryIdle /\ RunIdle /\ SeqIdle /\ ConfigIdle /\ InitSup
SpecToken == InitTokenRun /\ [][NextToken]_vars

\* One run of ImprovedSyncManager.sync_accounts_parallel.
InitSchedRun ==
  InitSched /\ InitRunVars /\ TokenIdle /\ InitRetryIdle /\ SeqIdle /\ ConfigIdle
  /\ InitSup
SpecSched == InitSchedRun /\ [][NextSched]_vars

\* One run of SyncManager.sync_accounts or of
\* ImprovedSyncManager.sync_accounts_parallel.
SpecRun == InitSchedRun /\ [][NextRun]_vars

\* One call of SyncManager.run_imapsync_with_retry.
InitRetryRun == InitRetry /\ TokenIdle /\ SchedIdle /\ RunIdle /\ SeqIdle /\ ConfigIdle /\ InitSup
SpecRetry == InitRetryRun /\ [][NextRetry]_vars

\* Threads calling the write operations of one ConfigManager, and a second
\* ConfigManager that loads what they saved.
InitConfigRun ==
  InitConfig /\ TokenIdle /\ SchedIdle /\ InitRetryIdle /\ RunIdle /\ SeqIdle /\ InitSup
SpecConfig == InitConfigRun /\ [][NextConfig]_vars

\* Calls of the methods that run imapsync, each with its child process.
InitSupRun ==
  InitSup /\ TokenIdle /\ SchedIdle /\ InitRetryIdle /\ RunIdle /\ SeqIdle /\ ConfigIdle
SpecSup == InitSupRun /\ [][NextSup]_vars

\* The same, with every thread and every child process going on when it can.
SpecSupFair ==
  /\ InitSupRun
  /\ [][NextSup]_vars
  /\ \A w \in Workers :
       /\ WF_vars(SupStart(w))
       /\ WF_vars(ChildExits(w))
       /\ WF_vars(SupReadLine(w))
       /\ WF_vars(SupReadEOF(w))
       /\ WF_vars(SupWait(w))
       /\ WF_vars(SupRunReturns(w))

\* ================================================================ properties

\* C1 (as claimed): every token get_valid_token returns is, at the moment it is
\* returned, more than the 10-minute margin away from its recorded expiry.
C1_ReturnedOutsideMargin ==
  \A t \in Threads : (tpc[t] = "done" /\ tret[t] # 0) => tslack[t] > Margin

\* C1 (amended): a token get_valid_token returns is either the cached token, more than
\* the margin away from its recorded expiry (a cache hit without a refresh), or it is
\* returned after the caller's own refresh or re-acquisition completed and is not the
\* token that was cached when the call began.
C1_OutsideMarginOrRefreshed ==
  \A t \in Threads :
    (tpc[t] = "done" /\ tret[t] # 0) =>
      \/ ~trefreshed[t] /\ tret[t] = tcached[t] /\ tslack[t] > Margin
      \/ trefreshed[t] /\ tret[t] # tcached[t]

\* C1 witness: a refresh completed inside the call and the refreshed token was
\* returned while its recorded expiry is already inside the margin.
C1_Witness ==
  \E t \in Threads :
    tpc[t] = "done" /\ trefreshed[t] /\ tret[t] # 0 /\ tret[t] # tcached[t]
      /\ tslack[t] <= Margin

\* C2 (as claimed): refresh and acquire requests of one identity are mutually
\* exclusive: at no time are two threads both waiting for the token endpoint.
C2_SingleRefreshInFlight ==
  Cardinality({t \in Threads : tpc[t] \in {"post_refresh", "post_acquire"}}) <= 1

FolderSet(a) == SeqToSet(FolderList(a))
BatchSet(a, i) == SeqToSet(batches[a][i])
BatchIds(a) == 1..Len(bst[a])
FailedIds(a) == {failed_batches[a][k][1] : k \in 1..Len(failed_batches[a])}
Succeeded(a, i) == bst[a][i].st = "processed" /\ bst[a][i].res = "ok"

\* C3 (as claimed): the persisted checkpoint of an account holds only folders of
\* transfer invocations that exited and were classified success, and it is written
\* at most once for each batch.
C3_CheckpointOnlyAfterSuccessOnce ==
  /\ \A a \in Accounts : ckpt[a] \subseteq okFolders[a]
  /\ \A a \in Accounts : \A i \in 1..Len(writes[a]) : writes[a][i] <= 1

\* C4 (as claimed): once the shutdown flag is set, the persisted checkpoint holds
\* only folders of batches that had succeeded before the flag was set.
C4_ShutdownKeepsCheckpoint ==
  shutdown => \A a \in Accounts : ckpt[a] \subseteq tripOk[a]

\* C5 (as claimed): once two succeeding batches of one account have both been
\* processed, the persisted checkpoint of that account holds the folders of both.
C5_BothBatchesPersisted ==
  \A a \in Accounts : \A i, j \in BatchIds(a) :
    (i # j /\ Succeeded(a, i) /\ Succeeded(a, j)) =>
      (BatchSet(a, i) \cup BatchSet(a, j)) \subseteq ckpt[a]

\* C6 (as claimed): at the end of a run of several accounts the persisted checkpoint
\* holds the folders of every successful batch of every account.
C6_EverySuccessPersisted ==
  opc = "done" => \A a \in Accounts : okFolders[a] \subseteq ckpt[a]

\* C7 (as claimed): after a run that fully succeeded for an account, the checkpoint
\* it leaves makes the next run find nothing outstanding for that account (no batch,
\* hence no transfer invocation).
C7_NothingOutstandingAfterFullRun ==
  \A a \in Accounts :
    (opc = "done" /\ result[a] = "ok" /\ FolderSet(a) \subseteq okFolders[a]) =>
      BatchFolders(FoldersToSync(FolderList(a), ckpt[a]), BatchSize) = <<>>

C10_RetriedAtMostOnce ==
  \A a \in Accounts : \A i \in 1..Len(rruns[a]) : rruns[a][i] <= 1

\* C9 (as claimed): a task whose every attempt failed was attempted max_retries times,
\* slept 2, 4, 8, ... seconds between the attempts, and its failure message mentions
\* max_retries attempts.
C9_EveryFailureRetried ==
  (rpc = "done" /\ attempts >= 1 /\ ~outcome.ok) =>
    /\ attempts = max_retries
    /\ delays = [k \in 1..(max_retries - 1) |-> Pow2(k)]
    /\ outcome.msg = "Sync failed after n attempts" /\ outcome.n = max_retries

\* C9 (amended): a task whose every attempt raised (nonzero exit code or missing tool)
\* was attempted exactly max_retries times and its failure message mentions
\* max_retries attempts; whatever ended the loop, it slept 2^1, 2^2, ... seconds
\* between consecutive attempts (strictly increasing) and not after the last one.  An
\* attempt that fails without raising (no OAuth token) ends the loop at once.
C9_RaisedFailureRetried ==
  (rpc = "done" /\ attempts >= 1) =>
    /\ delays = [k \in 1..(attempts - 1) |-> Pow2(k)]
    /\ \A k \in 1..(Len(delays) - 1) : delays[k] < delays[k + 1]
    /\ raisedAll =>
         /\ attempts = max_retries
         /\ outcome = [ok |-> FALSE, msg |-> "Sync failed after n attempts",
                       n |-> max_retries]

\* C9 witness: every one of four attempts raised and the loop slept 2, 4 and 8 seconds.
C9_Witness ==
  rpc = "done" /\ raisedAll /\ attempts = 4 /\ delays = <<2, 4, 8>>

\* C11 (as claimed): an account whose folder discovery returned nothing has had
\* exactly one whole-account transfer process and no folder-batch process.
C11_ExactlyOneWholeAccountRun ==
  \A a \in Accounts :
    (apc[a] = "done" /\ discovered[a] = <<>>) => (allruns[a] = 1 /\ bst[a] = <<>>)

\* C11 (amended): an account whose folder discovery returned nothing has had at most
\* one whole-account transfer process and no folder-batch process; it has had exactly
\* one unless the tool was missing (the call raised) or, for an Office 365 account,
\* no OAuth manager or token was to be had: then it has had none and is not reported
\* as succeeded.
C11_AtMostOneWholeAccountRun ==
  \A a \in Accounts :
    (apc[a] = "done" /\ discovered[a] = <<>>) =>
      /\ allruns[a] <= 1
      /\ bst[a] = <<>> /\ rruns[a] = <<>>
      /\ result[a] = "ok" => allruns[a] = 1
      /\ result[a] = "raised" => allruns[a] = 0
      /\ (result[a] = "fail" /\ ~IsOffice365(a)) => allruns[a] = 1

\* C11 witness: both kinds of account went through the fallback, the password account
\* with one whole-account process that succeeded, the Office 365 account with none.
C11_Witness ==
  /\ apc["a2"] = "done" /\ discovered["a2"] = <<>> /\ allruns["a2"] = 1 /\ result["a2"] = "ok"
  /\ apc["a1"] = "done" /\ discovered["a1"] = <<>> /\ allruns["a1"] = 0 /\ result["a1"] = "fail"

\* C12: the destination server is tested once, and before any account work: before
\* the test, and for ever after a failed test, no account has been looked at, no
\* folder discovery and no transfer has been started, by either orchestrator.
C12_ProbeOnceBeforeAccountWork ==
  /\ probes <= 1
  /\ (probes = 0 \/ probeFailed) =>
       /\ \A a \in Accounts :
            /\ apc[a] = "none" /\ discovered[a] = <<>> /\ bst[a] = <<>>
            /\ allruns[a] = 0 /\ result[a] = "none" /\ qout[a] = "none"
       /\ rpc = "done" /\ attempts = 0 /\ ~announced
  /\ probeFailed => (opc = "done" \/ qpc = "done")
  /\ (opc # "idle" \/ qpc # "idle") => probes = 1

\* C12 witness: the test of the destination failed and the run is over.
C12_Witness ==
  probeFailed /\ probes = 1 /\ (opc = "done" \/ qpc = "done")

\* C13 (as claimed, for a batch that reached succeeded): once a folder batch has
\* succeeded and its folders have been checkpointed, no transfer process is started
\* for that batch again.
C13_SucceededNotRerun ==
  [][\A a \in Accounts : \A i \in BatchIds(a) :
       writes[a][i] >= 1 => rruns'[a][i] = rruns[a][i]]_vars

\* C14: a call of get_valid_token that finds a cached token whose recorded expiry is
\* more than the margin away returns in one step: it posts nothing to the token
\* endpoint, leaves self.tokens and the token file as they were, and returns the
\* cached access token.
C14_CacheHit ==
  [][\A t \in Threads :
       (/\ tpc[t] = "idle" /\ tpc'[t] # "idle"
        /\ tokens.access_token # 0 /\ tokens.expires_at # 0
        /\ tokens.expires_at - now > Margin) =>
         /\ tpc'[t] = "done"
         /\ tret'[t] = tokens.access_token
         /\ tokens' = tokens /\ tokfile' = tokfile /\ issued' = issued]_vars

\* C14 witness: a call returned the cached token, more than the margin away from its
\* recorded expiry, without a refresh.
C14_Witness ==
  \E t \in Threads :
    tpc[t] = "done" /\ ~trefreshed[t] /\ tret[t] # 0 /\ tret[t] = tcached[t]
      /\ tslack[t] > Margin /\ tokens.access_token = tret[t]

\* C20 (as claimed): whenever get_valid_token returns a token, the token file holds
\* that token.
C20_ReturnedTokenIsOnDisk ==
  [][\A t \in Threads :
       (tpc[t] # "done" /\ tpc'[t] = "done" /\ tret'[t] # 0) =>
         tokfile.access_token = tret'[t]]_vars

\* C15 (as claimed): with the shutdown flag set, no step starts work on a further
\* account, starts a queued or retried folder batch or a whole-account transfer, or
\* makes a further attempt of run_imapsync_with_retry.
C15_NothingStartedAfterShutdown ==
  [][shutdown =>
       /\ \A a \in Accounts : ~(apc[a] = "queued" /\ apc'[a] # "queued")
       /\ \A a \in Accounts : \A i \in BatchIds(a) :
            ~(bst[a][i].st = "pending" /\ bst'[a][i].st = "running")
       /\ rruns' = rruns
       /\ allruns' = allruns
       /\ ~(qpc = "loop" /\ qpc' = "call")
       /\ attempts' <= attempts]_vars

\* C16 (as claimed): a call of _run_imapsync that finds no imapsync executable ends
\* run_imapsync_with_retry at once (no sleep, no further attempt), and sync_accounts
\* does not go on to another account afterwards.
C16_ToolMissingIsFatal ==
  toolMissing => (rpc = "done" /\ qpc # "loop")

\* C17: an account without a destination password is never handed to folder
\* discovery or to a transfer by either orchestrator; it is passed over with a
\* printed reason, and once the run is through every account that has a destination
\* password has its outcome (in sync_accounts unless the shutdown flag cut the loop
\* short).
C17_MissingPasswordSkipped ==
  \A a \in Accounts \ destpw :
    /\ apc[a] \in {"none", "skipped"} /\ discovered[a] = <<>> /\ bst[a] = <<>>
    /\ allruns[a] = 0 /\ result[a] = "none"
    /\ qout[a] \in {"none", "skipped"}
    /\ ~(qpc = "call" /\ AccountOrder[qi] = a)
    /\ (opc \in {"running", "done"} /\ ~probeFailed) => apc[a] = "skipped"
    /\ (opc = "done" /\ ~probeFailed) =>
         \A b \in destpw : apc[b] = "done" /\ result[b] # "none"
    /\ (qpc = "done" /\ ~probeFailed /\ ~shutdown) =>
         /\ qout[a] = "skipped"
         /\ \A b \in destpw : qout[b] \in {"ok", "fail"}

\* C17 witness: sync_accounts_parallel is through; the Office 365 account had no
\* destination password and was passed over, the other account was synced from its
\* folder batches.
C17_Witness ==
  /\ destpw = {"a2"}
  /\ opc = "done" /\ apc["a1"] = "skipped" /\ result["a1"] = "none"
  /\ apc["a2"] = "done" /\ result["a2"] = "ok" /\ ckpt["a2"] = FolderSet("a2")

\* Some transfer of batch i of account a exited with success.
EndedOk(a, i) == BatchSet(a, i) \subseteq okFolders[a]

\* C18 (as claimed): sync_account_parallel, having gone through its folder batches,
\* reports success exactly when no batch ended failed, and no folder of a batch that
\* ended failed is in the checkpoint.
C18_SucceededIffNoFailedBatch ==
  \A a \in Accounts :
    (apc[a] = "done" /\ discovered[a] # <<>> /\ result[a] \in {"ok", "fail"}) =>
      /\ result[a] = "ok" <=> \A i \in BatchIds(a) : EndedOk(a, i)
      /\ \A i \in BatchIds(a) : ~EndedOk(a, i) => BatchSet(a, i) \cap ckpt[a] = {}

\* C19 (as claimed): at the end of a run every account has one reported outcome, the
\* success and failure counts of sync_accounts_parallel add up to the number of
\* accounts given work, and no account with a failed transfer is counted as
\* successful or covered by the announcement that all accounts are synchronized.
C19_NoFailureDropped ==
  /\ (opc = "done" /\ ~probeFailed) =>
       /\ \A a \in Accounts :
            /\ apc[a] \in {"done", "skipped"}
            /\ apc[a] = "done" <=> result[a] # "none"
            /\ (result[a] = "ok" /\ discovered[a] # <<>>) =>
                 \A i \in BatchIds(a) : EndedOk(a, i)
       /\ Cardinality({a \in Accounts : result[a] = "ok"})
            + Cardinality({a \in Accounts : result[a] \in {"fail", "raised"}})
          = Cardinality(destpw)
  /\ (qpc = "done" /\ ~probeFailed) =>
       /\ ~shutdown => \A a \in Accounts : qout[a] # "none"
       /\ announced => \A a \in Accounts : qout[a] \in {"ok", "skipped"}

\* C21: when the request a call of get_valid_token posted to the token endpoint
\* fails (no token is issued), the call returns None in that same step, without
\* posting again, and self.tokens and the token file stay as they were.
C21_FailedRefreshReturnsNone ==
  [][\A t \in Threads :
       (/\ tpc[t] \in {"post_refresh", "post_acquire"}
        /\ tpc'[t] # tpc[t]
        /\ issued' = issued) =>
         /\ tpc'[t] = "done"
         /\ tret'[t] = 0
         /\ tokens' = tokens /\ tokfile' = tokfile]_vars

\* C21 witness: a call that found a token near expiry with a refresh token has
\* returned None, and the stored record still holds the token found at entry.
C21_Witness ==
  \E t \in Threads :
    /\ tpc[t] = "done" /\ tret[t] = 0 /\ ~trefreshed[t]
    /\ tcached[t] # 0 /\ tokens.access_token = tcached[t] /\ tokens.refresh_token # 0
    /\ tokfile = tokens

\* C22: test_connection returned True exactly when the account's own credential is
\* usable: for an Office 365 account an OAuth manager exists and get_valid_token
\* gave a token, for any other account a password is configured.
C22_TestConnectionResult ==
  conn.made =>
    /\ (acct.is_office365 => (conn.ok <=> (acct.oauth /\ conn.token)))
    /\ (~acct.is_office365 => (conn.ok <=> acct.password))
    /\ (~conn.ok => (rpc = "done" /\ outcome.msg = "Connection test failed" /\ attempts = 0))

\* C22 witness: an Office 365 account that also has a password, with an OAuth manager
\* whose get_valid_token gave no token: test_connection returned False.
C22_Witness ==
  conn.made /\ acct.is_office365 /\ acct.password /\ acct.oauth /\ ~conn.token /\ ~conn.ok

\* The add_or_update_account calls of this run are for distinct emails.
DistinctAdds ==
  \A t, u \in CfgThreads :
    (/\ t # u
     /\ call[t].op = "add_or_update_account"
     /\ call[u].op = "add_or_update_account") =>
      call[t].account.email # call[u].account.email

\* Setup was run and only add_or_update_account (distinct emails) and
\* update_global_config are called.
AddsAndUpdatesAfterSetup ==
  /\ setup
  /\ \A t \in CfgThreads :
       call[t].op \in {"none", "add_or_update_account", "update_global_config"}
  /\ DistinctAdds

Quiet == \A t \in CfgThreads : cpc[t] \in {"idle", "done"}

\* What a call that returned left in the configuration.
InConfiguration(t) ==
  /\ call[t].op = "add_or_update_account" =>
       /\ \E i \in 1..Len(accounts) : accounts[i] = call[t].account
       /\ Truthy(call[t].dest_password) =>
            /\ call[t].account.dest_email \in DOMAIN dest_config.passwords
            /\ dest_config.passwords[call[t].account.dest_email] = call[t].dest_password
  /\ call[t].op = "update_global_config" =>
       call[t].key \in DOMAIN dest_config.settings

C24_RequiresSetup ==
  [][\A t \in CfgThreads :
       (/\ cpc[t] = "body"
        /\ cpc'[t] # "body"
        /\ ~accounts_config.exists) =>
         /\ cres'[t] = "Configuration file not found"
         /\ accounts' = accounts
         /\ dest_config' = dest_config]_vars

\* C25 (as claimed): load_configuration by a new ConfigManager with the same
\* key restores what save_configuration saved: the same accounts in the same
\* order with all their fields, the same destination settings and the same
\* destination passwords.
C25_RoundTrip ==
  (loaded.made /\ accounts_config.exists) =>
    /\ loaded.accounts = saved.accounts
    /\ loaded.dest_config.settings = saved.dest_config.settings
    /\ loaded.dest_config.passwords = saved.dest_config.passwords

\* What comes back for a saved password: itself, or what it encrypts when it
\* is a token of the manager's own key.
Restored(p) == IF IsToken(p) THEN SubSeq(p, 3, Len(p)) ELSE p

\* C25 (amended): the round trip restores the accounts in the same order with
\* the same email, is_office365, dest_email and sync_stats, the same
\* destination settings and the same destination emails; every password comes
\* back as it was saved, except one that is itself a token of the manager's
\* key, which comes back decrypted.
C25_RoundTripUpToTokens ==
  (loaded.made /\ accounts_config.exists) =>
    /\ Len(loaded.accounts) = Len(saved.accounts)
    /\ \A i \in 1..Len(saved.accounts) :
         loaded.accounts[i] =
           [saved.accounts[i] EXCEPT !.password = Restored(saved.accounts[i].password)]
    /\ loaded.dest_config.settings = saved.dest_config.settings
    /\ DOMAIN loaded.dest_config.passwords = DOMAIN saved.dest_config.passwords
    /\ \A d \in DOMAIN saved.dest_config.passwords :
         loaded.dest_config.passwords[d] = Restored(saved.dest_config.passwords[d])

C25_Witness ==
  /\ loaded.made
  /\ accounts_config.exists
  /\ \E t \in CfgThreads : cpc[t] = "done" /\ cres[t] = "None"
  /\ Len(loaded.accounts) = 2
  /\ loaded.accounts = saved.accounts
  /\ \E i \in 1..2 : loaded.accounts[i].password = <<"pw1">>
  /\ \E i \in 1..2 : loaded.accounts[i].sync_stats # DefaultStats
  /\ \E d \in DOMAIN saved.dest_config.passwords :
       loaded.dest_config.passwords[d] = <<"dpw1">>
  /\ loaded.dest_config.passwords = saved.dest_config.passwords

\* C26: when batches of an account ended token-expired, what is retried after
\* the executor has drained is exactly those batches, each of them once: the
\* list the retry loop goes through names no batch twice and no batch that
\* failed otherwise, and no other batch has a transfer process started for it
\* by the retry loop.
C26_RetriesExactlyExpiredBatches ==
  \A a \in Accounts :
    (\E i \in BatchIds(a) : bst[a][i].st = "processed" /\ bst[a][i].res = "expired") =>
      /\ apc[a] = "retry" =>
           /\ \A k \in 1..Len(failed_batches[a]) :
                bst[a][failed_batches[a][k][1]].res = "expired"
           /\ \A k, l \in 1..Len(failed_batches[a]) :
                k # l => failed_batches[a][k][1] # failed_batches[a][l][1]
      /\ \A i \in BatchIds(a) : rruns[a][i] > 0 => bst[a][i].res = "expired"

\* C27: in every method that runs the transfer tool, a call during which a
\* token-expiration marker was in the child's output does not report success,
\* whatever the exit code: success means that no marker was seen.
C27_NoSuccessAfterMarker ==
  \A w \in Workers : wres[w] = "ok" => ~sawMarker[w]

\* C28: once the shutdown flag is set, every call that is in flight returns:
\* its child is terminated, and killed if it does not end, also when it is
\* silent or ignores the termination.
C28_InFlightCallsReturn ==
  \A w \in Workers :
    (shutdown /\ wpc[w] \in {"read", "wait", "run"}) ~> (wpc[w] = "returned")

\* C29: active_processes holds the children that were started and have not
\* ended: a running child is in it, and when the call that started a child is
\* over the child is not in it any more.
C29_RegistryIsRunningChildren ==
  \A w \in Workers :
    /\ child[w].st = "running" => w \in active_processes
    /\ wpc[w] = "returned" => w \notin active_processes

\* The position of folder f in the sequence of folders (0 when it is not in it).
PosIn(folders, f) ==
  IF \E p \in 1..Len(folders) : folders[p] = f
    THEN CHOOSE p \in 1..Len(folders) : folders[p] = f
    ELSE 0

\* The places <<n, j>> of the batches at which folder f stands.
PlacesOf(bs, f) ==
  {pl \in (1..Len(bs)) \X (1..BatchSize) : pl[2] <= Len(bs[pl[1]]) /\ bs[pl[1]][pl[2]] = f}

\* bs partitions, in the order of found, the folders of found that are not in done.
Partitions(bs, found, done) ==
  /\ \A f \in SeqToSet(found) \ done : Cardinality(PlacesOf(bs, f)) = 1
  /\ \A n \in 1..Len(bs) : \A j \in 1..Len(bs[n]) :
       bs[n][j] \in SeqToSet(found) \ done
  /\ \A n, m \in 1..Len(bs) : \A j \in 1..Len(bs[n]) : \A k \in 1..Len(bs[m]) :
       (n < m \/ (n = m /\ j < k)) => PosIn(found, bs[n][j]) < PosIn(found, bs[m][k])
  /\ \A n \in 1..Len(bs) :
       /\ Len(bs[n]) >= 1
       /\ Len(bs[n]) <= BatchSize
       /\ n < Len(bs) => Len(bs[n]) = BatchSize

\* C30: the batches sync_account_parallel builds partition the outstanding
\* folders, the discovered folders that are not in the checkpoint it loaded,
\* in discovery order: every outstanding folder is in exactly one batch, no
\* checkpointed folder is in a batch, and every batch has batch_size folders
\* except the last, which has at least one and at most batch_size.
C30_BatchesPartitionOutstanding ==
  [][\A a \in Accounts :
       (apc[a] = "load" /\ apc'[a] # "load") =>
         Partitions(batches'[a], discovered[a], ckpt[a])]_vars

C30_Witness ==
  \E a \in Accounts :
    /\ apc[a] = "pool"
    /\ \A i \in BatchIds(a) : bst[a][i].st = "pending"
    /\ ckpt[a] # {}
    /\ Len(discovered[a]) > BatchSize
    /\ Len(batches[a]) = 1
    /\ Len(batches[a][1]) = Len(discovered[a]) - BatchSize

\* C31: the transfer processes running for one account are never more than
\* the workers of the account's pool: every running child of a folder-batch
\* call belongs to a call that a worker of the pool is still executing.
C31_RunningChildrenHaveWorkers ==
  \A w \in Workers :
    (wkind[w] = "for_folders" /\ child[w].st = "running") => wpc[w] \in {"read", "wait"}

\* C32: apart from the token-expiration marker the content of the output
\* lines changes no outcome. Every batch of a finished account exited with
\* code 0 and no marker, as in the run whose children print nothing else, so
\* the account is reported as in that run: succeeded.
C32_OutcomeIgnoresOtherLines ==
  \A a \in Accounts :
    (/\ apc[a] = "done" /\ discovered[a] # <<>> /\ result[a] \in {"ok", "fail"}
     /\ \A i \in BatchIds(a) : bst[a][i].st = "processed" /\ bst[a][i].res = "ok")
      => result[a] = "ok"

\* C33: get_account_folders never raises: when it times out or fails in any
\* other way it returns the empty list, and its caller goes on with the
\* whole-account transfer whenever the list is empty.
C33_DiscoveryNeverRaises ==
  [][\A a \in Accounts :
       (discovery[a].end = "none" /\ discovery'[a].end # "none") =>
         /\ result'[a] = result[a]
         /\ discovery'[a].end \in {"nomanager", "error", "timeout", "nothing"}
              => discovered'[a] = <<>>
         /\ apc'[a] = IF discovered'[a] = <<>> THEN "fallback" ELSE "load"]_vars

\* C33 witness: the discovery of one account timed out, that of the other
\* failed with an exception, and both accounts are at the whole-account
\* transfer.
C33_Witness ==
  /\ discovery["a1"].end = "timeout" /\ apc["a1"] = "fallback"
  /\ discovery["a2"].end = "error" /\ apc["a2"] = "fallback"
  /\ \A a \in Accounts : result[a] = "none"

\* C34: the statistics of an account (last_sync, synced_messages) change only
\* in the step in which a transfer for that account ends in success; an
\* attempt that failed, got no token or was terminated on shutdown leaves them
\* as they were.
C34_StatsChangeOnlyOnSuccess ==
  [][\A a \in Accounts :
       sync_stats'[a] # sync_stats[a] =>
         /\ a = acct.email /\ rpc = "loop"
         /\ ended' = "ok" /\ outcome'.ok]_vars

\* C34 witness: the transfer of a1 succeeded and its statistics were updated; that of a2 was terminated on shutdown and its
\* statistics are the initial ones.
C34_Witness ==
  /\ qout["a1"] = "ok" /\ sync_stats["a1"] = [synced_messages |-> 1, last_sync |-> <<"now">>]
  /\ acct.email = "a2" /\ shutdown /\ ended = "terminated" /\ attempts = 1
  /\ sync_stats["a2"] = DefaultStats

\* C35: a run that went past the test of the destination server, whether all
\* its accounts finished or it was shut down, has saved the configuration
\* exactly once when the orchestrator returns, also when accounts failed or
\* were skipped.
C35_SavedExactlyOnce ==
  (~probeFailed /\ (opc = "done" \/ qpc = "done")) => saves = 1

\* C36: a call of get_valid_token that finds a token in need of a refresh
\* posts the client-credentials grant for a client-credentials record and the
\* refresh-token grant for any other record that holds a refresh token; for
\* another record without refresh token it returns failure and no request is
\* made. The answer to a client-credentials request is stored as a
\* client-credentials record, that to a refresh request leaves the kind of
\* the record as it was.
C36_RefreshFollowsGrantType ==
  [][\A t \in Threads :
       /\ (/\ tpc[t] = "idle" /\ tpc'[t] # "idle"
           /\ tokens.access_token # 0 /\ tokens.expires_at # 0
           /\ NearExpiry(now, tokens.expires_at)) =>
             /\ issued' = issued /\ tokens' = tokens
             /\ IF tokens.grant_type = "client_credentials"
                  THEN tpc'[t] = "post_acquire"
                  ELSE IF tokens.refresh_token # 0
                    THEN tpc'[t] = "post_refresh"
                    ELSE tpc'[t] = "done" /\ tret'[t] = 0
       /\ (tpc[t] = "post_acquire" /\ tpc'[t] = "save") =>
             tokens'.grant_type = "client_credentials"
       /\ (tpc[t] = "post_refresh" /\ tpc'[t] = "save") =>
             /\ tokens.refresh_token # 0
             /\ tokens'.grant_type = tokens.grant_type]_vars

\* C36 witness: a thread has posted the client-credentials grant for an
\* expiring client-credentials record and the answer is stored, while another
\* thread's call is at its request.
C36_Witness ==
  \E t, u \in Threads :
    /\ tpc[t] = "save" /\ trefreshed[t] /\ tokens.grant_type = "client_credentials"
    /\ tpc[u] = "post_acquire"

\* C37: a dry run of sync_account_parallel leaves the persisted checkpoint as
\* it was.
C37_DryRunKeepsCheckpoint ==
  [][dry_run => ckpt' = ckpt]_vars

\* C38: no imapsync process is started for an Office 365 account without a
\* valid access token: the child of a folder discovery for such an account
\* was given a token.
C38_NoChildWithoutToken ==
  \A a \in Accounts :
    (IsOffice365(a) /\ discovery[a].child # "none") => discovery[a].child = "token"

\* C39: a call of run_imapsync_with_retry (with at least one attempt allowed)
\* has made a transfer attempt when it returns, for a password account that
\* has a password, with or without an OAuth manager, and for an Office 365
\* account whose connection test obtained a token.
C39_CredentialedAccountAttempted ==
  (rpc = "done" /\ max_retries >= 1) =>
    /\ (~acct.is_office365 /\ acct.password) => attempts >= 1
    /\ (acct.is_office365 /\ acct.oauth /\ conn.made /\ conn.token) => attempts >= 1

====
